---- MODULE Spec2Model ----
(***************************************************************************)
(* Model of the LandscapeChange_GeoTools toolbox.                           *)
(*                                                                         *)
(* Part 1: the export tool (toolbox/ExportPatches.py) and its validation   *)
(* functions (toolbox/expPatchesFunctions.py).                             *)
(*                                                                         *)
(* Cells of an attribute table are strings.  Numbers are written as their  *)
(* decimal numerals ("0", "3") and read back with Num, because one table   *)
(* column may hold a number in one row and a null in the next.             *)
(* Python/pandas nulls come in two kinds that the code treats differently: *)
(*   None : a null of the geodatabase (None, or NaN in a numeric column)   *)
(*   NA   : pandas.NA, written by clean_data and by extract_data           *)
(* Both are "na" for isna()/notna() and both compare False under <, >, ==  *)
(* against a scalar, but only NA raises TypeError when its truth value is  *)
(* taken, which is what the `in` operator of check_mismatch does.          *)
(***************************************************************************)
EXTENDS Integers, Sequences, FiniteSets, TLC

(***************************************************************************)
(* Bounds of the model.                                                    *)
(***************************************************************************)
\* most rows of a feature class in SpecExport
MaxRows == 2
\* most feature classes of one run of the tool in Spec
NumFcs == 2
\* most patches of the yearly dataset of add_coords in SpecCoords
MaxPatches == 3
\* most patches of the feature class of add_attr_patches in SpecAttr
MaxAttrRows == 2
\* the years of change, one shapefile each, in SpecRun
NumYears == 3

(***************************************************************************)
(* Cell values.                                                            *)
(***************************************************************************)
None == "<None>"
NA == "<NA>"
Blank == " "

isna(v) == v \in {None, NA}
notna(v) == ~isna(v)

\* the numerals that occur in the Confidence column of the model
Num == [n \in {"0", "1", "2", "3", "4"} |->
          CASE n = "0" -> 0 [] n = "1" -> 1 [] n = "2" -> 2 [] n = "3" -> 3 [] OTHER -> 4]

\* Series < scalar, Series > scalar: a null cell compares False
lt(v, n) == notna(v) /\ Num[v] < n
gt(v, n) == notna(v) /\ Num[v] > n
\* Series != scalar: a null cell compares True;  Series == scalar: False
ne(v, s) == isna(v) \/ v # s
eq(v, s) == notna(v) /\ v = s

Range(s) == {s[i] : i \in 1..Len(s)}

RECURSIVE SetToSeq(_)
SetToSeq(S) == IF S = {} THEN <<>>
               ELSE LET x == CHOOSE y \in S : TRUE IN <<x>> \o SetToSeq(S \ {x})

(***************************************************************************)
(* The fields of the export lists that the checks read, in the order of    *)
(* the two lists.  The other fields of the lists are plain values that are *)
(* copied (CSV) or required to be present (shapefile); Park stands for     *)
(* them.                                                                   *)
(***************************************************************************)
patches_fields ==
  << "Park", "PatchName", "DistYear", "DistName", "EventType",
     "ChangeType", "Confidence", "AltType", "ChangeDesc" >>

exp_fields ==
  << "AltType", "ChangeDesc", "ChangeType", "Confidence", "DistYear",
     "DistName", "EventType", "PatchName", "Park" >>

no_check_fields == << "AltType", "ChangeDesc", "DistYear", "DistName" >>

Fields == Range(patches_fields)

\* the ChangeType column of lookup.ChangeType
ValidChangeTypes == {"Fire"}

(***************************************************************************)
(* A feature class is [fields: the set of its field names, rows: its rows]; *)
(* a row maps each field of the feature class to a cell.  A data frame is  *)
(* [columns: the column names in order, data: its rows].                   *)
(***************************************************************************)

\* csv_df = csv_df[patches_fields]: the columns in the order of the requested list
reorder_columns(df, fields) == [df EXCEPT !.columns = fields]

\* expPatchesFunctions.extract_data
extract_data(patches_fc, fields) ==
  LET fc_fields == patches_fc.fields
      fields_to_export == SelectSeq(fields, LAMBDA f : f \in fc_fields)
      missing_fields == SelectSeq(fields, LAMBDA f : f \notin fc_fields)
      read == [columns |-> fields_to_export,
               data |-> [i \in 1..Len(patches_fc.rows) |->
                          [f \in Range(fields_to_export) |-> patches_fc.rows[i][f]]]]
      filled == [columns |-> read.columns \o missing_fields,
                 data |-> [i \in 1..Len(read.data) |->
                            [f \in Range(fields) |->
                               IF f \in Range(read.columns) THEN read.data[i][f] ELSE NA]]]
  IN [df |-> reorder_columns(filled, fields), warning |-> missing_fields]

\* replace(r'[\r\n]', ' ', regex=True) on the strings of the model
flatten_line_breaks(v) == IF v = "burn\nscar" THEN "burn scar" ELSE v

\* mutant of clean_cell: EventType is missing from the list of text columns
clean_cell_without_event_type(f, v) ==
  LET zeros == IF f \in {"Confidence", "DistYear"} /\ v = "0" THEN NA ELSE v
      spaces == IF f \in {"ChangeType", "AltType", "ChangeDesc", "DistName"}
                   /\ zeros = Blank
                THEN NA ELSE zeros
  IN flatten_line_breaks(spaces)

\* the cleaning of one cell of column f by clean_data
clean_cell(f, v) ==
  LET zeros == IF f \in {"Confidence", "DistYear"} /\ v = "0" THEN NA ELSE v
      spaces == IF f \in {"EventType", "ChangeType", "AltType", "ChangeDesc", "DistName"}
                   /\ zeros = Blank
                THEN NA ELSE zeros
  IN flatten_line_breaks(spaces)

\* expPatchesFunctions.clean_data
clean_data(csv_df) ==
  [csv_df EXCEPT !.data = [i \in 1..Len(csv_df.data) |->
      [f \in DOMAIN csv_df.data[i] |-> clean_cell(f, csv_df.data[i][f])]]]

\* the row filter of primary_validation for the export for GEE
gee_rows(csv_df) ==
  [csv_df EXCEPT !.data = SelectSeq(csv_df.data,
      LAMBDA r : notna(r["EventType"]) /\ ne(r["EventType"], "Mask")
                 /\ ne(r["EventType"], "Model"))]

\* expPatchesFunctions.check_mismatch; raised: the TypeError of `NA not in list`
check_mismatch(df_row, valid_values, column_to_check, column_to_return) ==
  IF df_row[column_to_check] = NA /\ valid_values # {}
  THEN [raised |-> TRUE, ret |-> <<None, None>>]
  ELSE IF df_row[column_to_check] \notin valid_values
       THEN [raised |-> FALSE, ret |-> <<df_row[column_to_check], df_row[column_to_return]>>]
       ELSE [raised |-> FALSE, ret |-> <<None, None>>]

\* a check that did not run because an earlier one raised
NotRun == [ran |-> FALSE, raised |-> FALSE, no_export |-> FALSE]

\* `csv_df['ChangeType'].isna().all()`: nothing to validate
no_change_types(csv_df) == \A i \in 1..Len(csv_df.data) : isna(csv_df.data[i]["ChangeType"])

\* expPatchesFunctions.check_change_types
check_change_types(csv_df) ==
  IF no_change_types(csv_df)
  THEN [ran |-> TRUE, raised |-> FALSE, no_export |-> FALSE, looked_up |-> FALSE,
        mismatches |-> <<>>]
  ELSE
    LET change_list == ValidChangeTypes \cup {Blank}
        rows == csv_df.data
        changetype == [i \in 1..Len(rows) |->
                         check_mismatch(rows[i], change_list, "ChangeType", "PatchName")]
        alttype == [i \in 1..Len(rows) |->
                      check_mismatch(rows[i], change_list, "AltType", "PatchName")]
        raised == \E i \in 1..Len(rows) : changetype[i].raised \/ alttype[i].raised
        mismatch_ct == SelectSeq([i \in 1..Len(rows) |-> changetype[i].ret],
                                 LAMBDA ct : ct[1] # None)
        mismatch_at == SelectSeq([i \in 1..Len(rows) |-> alttype[i].ret],
                                 LAMBDA at : at[1] # None)
        mismatches == mismatch_ct \o mismatch_at
    IN IF raised
       THEN [ran |-> TRUE, raised |-> TRUE, no_export |-> FALSE, looked_up |-> TRUE,
             mismatches |-> <<>>]
       ELSE [ran |-> TRUE, raised |-> FALSE, no_export |-> Len(mismatches) > 0,
             looked_up |-> TRUE, mismatches |-> mismatches]

\* mutant of check_confidence: the AltType rule is applied when only_values is set
check_confidence_flag_inverted(csv_df, only_values) ==
  LET events == SelectSeq(csv_df.data,
                       LAMBDA r : ne(r["EventType"], Blank) /\ notna(r["EventType"]))
      con_ck == SelectSeq(events,
                       LAMBDA r : lt(r["Confidence"], 1) \/ gt(r["Confidence"], 3))
      conf_1_2 == SelectSeq(events,
                         LAMBDA r : lt(r["Confidence"], 3) /\ ne(r["EventType"], "Mask"))
      conf_alttype == SelectSeq(conf_1_2, LAMBDA r : isna(r["AltType"]))
      conf_alttype_patches == [i \in 1..Len(conf_alttype) |-> conf_alttype[i]["PatchName"]]
  IN IF Len(events) = 0
     THEN [ran |-> TRUE, raised |-> FALSE, no_export |-> FALSE, invalid |-> 0,
           no_alttype |-> <<>>]
     ELSE IF ~only_values
          THEN [ran |-> TRUE, raised |-> FALSE, no_export |-> Len(con_ck) > 0,
                invalid |-> Len(con_ck), no_alttype |-> <<>>]
          ELSE [ran |-> TRUE, raised |-> FALSE,
                no_export |-> Len(con_ck) > 0 \/ Len(conf_alttype_patches) > 0,
                invalid |-> Len(con_ck), no_alttype |-> conf_alttype_patches]

\* expPatchesFunctions.check_confidence
check_confidence(csv_df, only_values) ==
  LET events == SelectSeq(csv_df.data,
                       LAMBDA r : ne(r["EventType"], Blank) /\ notna(r["EventType"]))
      con_ck == SelectSeq(events,
                       LAMBDA r : lt(r["Confidence"], 1) \/ gt(r["Confidence"], 3))
      conf_1_2 == SelectSeq(events,
                         LAMBDA r : lt(r["Confidence"], 3) /\ ne(r["EventType"], "Mask"))
      conf_alttype == SelectSeq(conf_1_2, LAMBDA r : isna(r["AltType"]))
      conf_alttype_patches == [i \in 1..Len(conf_alttype) |-> conf_alttype[i]["PatchName"]]
  IN IF Len(events) = 0
     THEN [ran |-> TRUE, raised |-> FALSE, no_export |-> FALSE, invalid |-> 0,
           no_alttype |-> <<>>]
     ELSE IF only_values
          THEN [ran |-> TRUE, raised |-> FALSE, no_export |-> Len(con_ck) > 0,
                invalid |-> Len(con_ck), no_alttype |-> <<>>]
          ELSE [ran |-> TRUE, raised |-> FALSE,
                no_export |-> Len(con_ck) > 0 \/ Len(conf_alttype_patches) > 0,
                invalid |-> Len(con_ck), no_alttype |-> conf_alttype_patches]

\* DataFrame.duplicated(subset=['PatchName'], keep=False): nulls equal one another
same_patch_name(a, b) == (isna(a) /\ isna(b)) \/ (notna(a) /\ notna(b) /\ a = b)

\* mutant of is_duplicated: duplicated(keep='first'), the first occurrence is not marked
is_duplicated_keep_first(rows, i) ==
  \E j \in 1..Len(rows) : j < i /\ same_patch_name(rows[i]["PatchName"], rows[j]["PatchName"])

is_duplicated(rows, i) ==
  \E j \in 1..Len(rows) : j # i /\ same_patch_name(rows[i]["PatchName"], rows[j]["PatchName"])

\* expPatchesFunctions.check_duplicate_patch_names
check_duplicate_patch_names(csv_df) ==
  LET rows == csv_df.data
      idx == SelectSeq([i \in 1..Len(rows) |-> i], LAMBDA i : is_duplicated(rows, i))
      duplicate_patches == [k \in 1..Len(idx) |-> rows[idx[k]]["PatchName"]]
  IN [ran |-> TRUE, raised |-> FALSE, no_export |-> Len(duplicate_patches) > 0,
      duplicate_patches |-> duplicate_patches]

\* mutant of check_fields_have_values: the blank placeholder counts as a value
check_fields_have_values_isna_only(csv_df, fields_to_check) ==
  LET has_missing(field) == \E i \in 1..Len(csv_df.data) : isna(csv_df.data[i][field])
      missing_values == SelectSeq(fields_to_check, has_missing)
  IN [ran |-> TRUE, raised |-> FALSE, no_export |-> Len(missing_values) > 0,
      missing_values |-> missing_values]

\* expPatchesFunctions.check_fields_have_values
check_fields_have_values(csv_df, fields_to_check) ==
  LET has_missing(field) == \E i \in 1..Len(csv_df.data) :
                               isna(csv_df.data[i][field]) \/ eq(csv_df.data[i][field], Blank)
      missing_values == SelectSeq(fields_to_check, has_missing)
  IN [ran |-> TRUE, raised |-> FALSE, no_export |-> Len(missing_values) > 0,
      missing_values |-> missing_values]

\* mutant of any_no_export: the result of the duplicate check is left out
any_no_export_without_duplicates(change_type, confidence, duplicates) ==
  confidence.no_export \/ change_type.no_export

\* `no_export_conf or no_export_change_type or no_export_dup_patch_names`
any_no_export(change_type, confidence, duplicates) ==
  confidence.no_export \/ change_type.no_export \/ duplicates.no_export

\* primary_validation, lines 57-59: the verdict and the data frame it returns
validation_result(extracted, csv_df, change_type, confidence, duplicates) ==
  [raised |-> change_type.raised,
   no_export |-> any_no_export(change_type, confidence, duplicates),
   csv_df |-> csv_df, extracted |-> extracted.df, warning |-> extracted.warning,
   change_type |-> change_type, confidence |-> confidence, duplicates |-> duplicates]

\* primary_validation, lines 50-54: the checks after check_change_types, which
\* are not reached when it raised
later_checks(extracted, csv_df, change_type, csv_exp) ==
  validation_result(extracted, csv_df, change_type,
     IF change_type.raised THEN NotRun ELSE check_confidence(csv_df, csv_exp),
     IF change_type.raised THEN NotRun ELSE check_duplicate_patch_names(csv_df))

\* primary_validation, lines 37-48: cleaning or row filter, then the first check
validate(extracted, csv_df, csv_exp) ==
  later_checks(extracted, csv_df, check_change_types(csv_df), csv_exp)

prepare(extracted, csv_exp) ==
  validate(extracted,
           IF csv_exp THEN clean_data(extracted.df) ELSE gee_rows(extracted.df),
           csv_exp)

\* expPatchesFunctions.primary_validation
primary_validation(patches_fc, fields, csv_exp) ==
  prepare(extract_data(patches_fc, fields), csv_exp)

\* Python's `a or b` on True, False and None, written "True", "False", "None"
truthy(a) == a = "True"
py_or(a, b) == IF truthy(a) THEN a ELSE b
py_bool(b) == IF b THEN "True" ELSE "False"

\* a check of export_patches_shp that export_patches_csv does not make
NoValuesCheck == [ran |-> FALSE, raised |-> FALSE, no_export |-> FALSE, missing_values |-> <<>>]

\* export_patches_csv, lines 507-515: what it returns (ret), whether it wrote the
\* CSV (written) and whether it ended in an exception (raised)
csv_export(pv) ==
  [raised |-> pv.raised, no_export |-> pv.no_export,
   written |-> ~pv.raised /\ ~pv.no_export,
   ret |-> IF pv.raised THEN "None" ELSE py_bool(pv.no_export),
   pv |-> pv, values |-> NoValuesCheck]

\* expPatchesFunctions.export_patches_csv
export_patches_csv(patches_fc) ==
  csv_export(primary_validation(patches_fc, patches_fields, TRUE))

\* what export_patches_shp returns: its `return no_export` is in the else branch
shp_return(no_export) == IF no_export THEN "None" ELSE py_bool(no_export)

\* export_patches_shp, line 620
value_fields == SelectSeq(exp_fields, LAMBDA field : field \notin Range(no_check_fields))

\* export_patches_shp, lines 626-636
shp_export(pv, values) ==
  [raised |-> pv.raised, no_export |-> pv.no_export \/ values.no_export,
   written |-> ~pv.raised /\ ~(pv.no_export \/ values.no_export),
   ret |-> IF pv.raised THEN "None" ELSE shp_return(pv.no_export \/ values.no_export),
   pv |-> pv, values |-> values]

\* export_patches_shp, line 623
shp_values_check(pv) ==
  shp_export(pv, IF pv.raised THEN NoValuesCheck
                 ELSE check_fields_have_values(pv.csv_df, value_fields))

\* expPatchesFunctions.export_patches_shp
export_patches_shp(patches_fc) ==
  shp_values_check(primary_validation(patches_fc, exp_fields, FALSE))

(***************************************************************************)
(* The inputs of the model.                                                *)
(***************************************************************************)

\* a labelled patch that passes every rule of both exports
DefaultRow ==
  [Park |-> "ACAD", PatchName |-> "p1", DistYear |-> "2001", DistName |-> "Storm",
   EventType |-> "Dist", ChangeType |-> "Fire", Confidence |-> "3", AltType |-> "Fire",
   ChangeDesc |-> "burn scar"]

\* rows that vary the event, its confidence and the alternative type
RowsConf ==
  {[DefaultRow EXCEPT !.EventType = e, !.Confidence = c, !.AltType = a] :
     e \in {None, Blank, "Mask", "Dist"}, c \in {None, "0", "1", "3", "4"}, a \in {None, "Fire"}}

\* rows that vary the two change types
RowsType ==
  {[DefaultRow EXCEPT !.ChangeType = ct, !.AltType = a] :
     ct \in {None, Blank, "Fire", "Bogus"}, a \in {None, Blank, "Fire", "Bogus"}}

\* a second patch name, missing plain values, a line break, a modelled event,
\* and an unlabelled patch as a geodatabase and as a shapefile store it
RowsAux ==
  {[DefaultRow EXCEPT !.PatchName = "p2"],
   [DefaultRow EXCEPT !.Park = None],
   [DefaultRow EXCEPT !.Park = Blank],
   [DefaultRow EXCEPT !.ChangeDesc = "burn\nscar"],
   [DefaultRow EXCEPT !.EventType = "Model"],
   [DefaultRow EXCEPT !.PatchName = "p2", !.EventType = None, !.ChangeType = None,
      !.Confidence = None, !.AltType = None, !.ChangeDesc = None, !.DistYear = None,
      !.DistName = None],
   [DefaultRow EXCEPT !.PatchName = "p2", !.EventType = Blank, !.ChangeType = Blank,
      !.Confidence = "0", !.AltType = Blank, !.ChangeDesc = Blank, !.DistYear = "0",
      !.DistName = Blank]}

Rows == RowsConf \cup RowsType \cup RowsAux

RowList == SetToSeq(Rows)

\* tables of at most n rows; the order of the rows decides only the order of the
\* messages, so one order of each multiset of rows is kept
Tables(n) ==
  {[k \in 1..Len(ids) |-> RowList[ids[k]]] :
     ids \in {s \in UNION {[1..m -> 1..Len(RowList)] : m \in 0..n} :
                \A k \in 1..(Len(s) - 1) : s[k] <= s[k + 1]}}

\* the fields that the feature class may lack
AbsentChoices == {{}, {"AltType"}, {"Park"}, {"PatchName"}}

FeatureClass(table, absent) ==
  [fields |-> Fields \ absent,
   rows |-> [k \in 1..Len(table) |-> [f \in Fields \ absent |-> table[k][f]]]]

FeatureClasses == {FeatureClass(t, a) : t \in Tables(MaxRows), a \in AbsentChoices}

\* rows that differ from DefaultRow in at most one field
NearDefault(r) == Cardinality({f \in Fields : r[f] # DefaultRow[f]}) <= 1

\* the feature classes of a run of the whole tool: none or one patch each
BatchFcs ==
  {FeatureClass(<<>>, {})} \cup {FeatureClass(<<r>>, {}) : r \in {x \in Rows : NearDefault(x)}}

(***************************************************************************)
(* Part 2: adding attributes to the patches of one year.                   *)
(*                                                                         *)
(* toolbox/addAttrFunctions.py: add_albers and add_coords.                 *)
(*                                                                         *)
(* A yearly dataset is the sequence of its patches in table order.  A      *)
(* patch has its annualID and whether arcpy can compute its central point  *)
(* (INSIDE).  CalculateGeometryAttributes works through the selected rows  *)
(* in table order and raises ExecuteError at the first patch whose central *)
(* point it cannot compute: the rows before it have their coordinates, the *)
(* rows from it on are left as they were.  This is the behaviour the code  *)
(* relies on ("the first feature where X_Coord_m is null is the one where  *)
(* the central point can't be calculated").                                *)
(***************************************************************************)
\* add_albers, lines 128-129
max_aid(fc) == CHOOSE m \in {fc[i].annualID : i \in DOMAIN fc} : \A i \in DOMAIN fc : fc[i].annualID <= m

\* the row at which CalculateGeometryAttributes INSIDE raises, 0 when it does not
first_failing(fc, sel) ==
  IF \E i \in sel : fc[i].inside_fails
  THEN CHOOSE i \in sel : fc[i].inside_fails /\ \A j \in sel : fc[j].inside_fails => i <= j
  ELSE 0

\* X_Coord_m after CalculateGeometryAttributes INSIDE over the rows sel that raised at row k
calculate_inside(x, sel, k) ==
  [i \in DOMAIN x |-> IF i \in sel /\ (k = 0 \/ i < k) THEN "inside" ELSE x[i]]

RECURSIVE add_albers(_, _, _)
RECURSIVE find_culprits(_, _, _)

\* a recursive call of add_albers is entered and left: depth is the number of recursive
\* calls that have not returned, max_depth the largest depth so far
called(s) == [s EXCEPT !.depth = @ + 1, !.max_depth = IF s.depth + 1 > @ THEN s.depth + 1 ELSE @]
returned(s) == [s EXCEPT !.depth = @ - 1]

\* add_albers, lines 181-215 and 235-263: the cursor over the rows; every row whose
\* X_Coord_m is null gets its centroid and a recursive call of add_albers
find_culprits(fc, s, i) ==
  IF i > Len(fc) THEN s
  ELSE IF s.X_Coord_m[i] = "null"
       THEN find_culprits(fc, returned(add_albers(fc, called([s EXCEPT !.X_Coord_m[i] = "centroid"]),
                                                  fc[i].annualID)), i + 1)
       ELSE find_culprits(fc, s, i + 1)

\* add_albers, lines 162-175 and 218-230: the try and its except
try_inside(fc, s, sel, k) ==
  IF k = 0
  THEN [s EXCEPT !.X_Coord_m = calculate_inside(s.X_Coord_m, sel, 0)]
  ELSE find_culprits(fc, [s EXCEPT !.X_Coord_m = calculate_inside(s.X_Coord_m, sel, k)], 1)

\* add_albers, lines 154-159: the rows with annualID > a_id
rows_after(fc, a_id) == {i \in DOMAIN fc : fc[i].annualID > a_id}

\* add_albers, lines 142-147: the warning, given only when a_id is the largest annualID
warn_or_continue(fc, s, a_id) ==
  IF a_id = max_aid(fc)
  THEN [s EXCEPT !.warnings = Append(@, s.annual_ids)]
  ELSE try_inside(fc, s, rows_after(fc, a_id), first_failing(fc, rows_after(fc, a_id)))

\* addAttrFunctions.add_albers; a_id = 0 stands for a_id = None (`if a_id:`), and
\* is_none for annual_ids = None, in which case the list annual_ids is empty
add_albers(fc, s, a_id) ==
  IF a_id # 0
  THEN warn_or_continue(fc, [s EXCEPT !.annual_ids = Append(@, a_id), !.is_none = FALSE], a_id)
  ELSE try_inside(fc, s, DOMAIN fc, first_failing(fc, DOMAIN fc))

\* add_coords, lines 296-339: CoordType, and add_utm_dd over the two selections;
\* add_utm_dd(INSIDE) raises for a patch without central point that is not in annual_ids
coords_result(fc, s) ==
  [CoordType |-> [i \in DOMAIN fc |->
                    IF ~s.is_none /\ fc[i].annualID \in Range(s.annual_ids)
                    THEN "Centroid" ELSE "Central point"],
   X_Coord_m |-> s.X_Coord_m,
   annual_ids |-> s.annual_ids,
   is_none |-> s.is_none,
   warnings |-> s.warnings,
   max_depth |-> s.max_depth,
   aborted |-> IF \E i \in DOMAIN fc : fc[i].inside_fails
                                       /\ (s.is_none \/ fc[i].annualID \notin Range(s.annual_ids))
               THEN "ExecuteError" ELSE "no"]

\* what add_coords leaves when max() of add_albers raises on a dataset without patches
coords_value_error ==
  [CoordType |-> <<>>, X_Coord_m |-> <<>>, annual_ids |-> <<>>, is_none |-> TRUE,
   warnings |-> <<>>, max_depth |-> 0, aborted |-> "ValueError"]

\* addAttrFunctions.add_coords
add_coords(fc) ==
  IF fc = <<>> THEN coords_value_error
  ELSE coords_result(fc, add_albers(fc, [X_Coord_m |-> [i \in DOMAIN fc |-> "null"],
                                         annual_ids |-> <<>>, is_none |-> TRUE,
                                         warnings |-> <<>>, depth |-> 0, max_depth |-> 0], 0))

\* the yearly datasets of SpecCoords: up to MaxPatches patches with distinct annualIDs
\* from 0 on, in any table order
CoordFcs ==
  UNION {{f \in [1..n -> [annualID : 0..MaxPatches, inside_fails : BOOLEAN]] :
            \A i, j \in 1..n : i # j => f[i].annualID # f[j].annualID} : n \in 0..MaxPatches}

(***************************************************************************)
(* Feature classes of the geodatabase.                                     *)
(*                                                                         *)
(* A feature class is its set of attribute fields and the sequence of its  *)
(* patches.  A patch carries the facts of its geometry that the tools ask  *)
(* for (which reference polygons it lies in, where it lies) and the values *)
(* of the attribute fields that the properties are about (v).  A field     *)
(* that the feature class does not have, or that is null, has v = None.    *)
(* A selection is a set of row positions; a tool that is given a layer     *)
(* works on the selected rows and on nothing else.                         *)
(***************************************************************************)
TrackedFields == {"CoordType", "InPark", "InBuffer", "Protected", "EastWest", "InMask",
                  "EventType", "Split", "OverlapPrv",
                  "ChangeType", "Confidence", "EventDate", "LabeledBy", "PriorRun", "PostDist",
                  "paratio", "Park", "PatchName"}

NoValues == [f \in TrackedFields |-> None]

\* arcpy.management.AddField: a field that exists is left as it is
AddField(fc, field_name) == [fc EXCEPT !.fields = @ \cup {field_name}]

\* arcpy.management.DeleteField
DeleteField(fc, drop_field) ==
  [fields |-> fc.fields \ drop_field,
   rows |-> [i \in DOMAIN fc.rows |->
               [fc.rows[i] EXCEPT !.v = [f \in TrackedFields |-> IF f \in drop_field THEN None ELSE @[f]]]]]

\* arcpy.management.CalculateField over the rows sel; it adds the field when missing
CalculateField(fc, sel, field, value) ==
  [fields |-> fc.fields \cup {field},
   rows |-> [i \in DOMAIN fc.rows |->
               IF i \in sel /\ field \in TrackedFields
               THEN [fc.rows[i] EXCEPT !.v[field] = value] ELSE fc.rows[i]]]

AllRows(fc) == DOMAIN fc.rows

\* the name under which arcpy.management.JoinField adds a field to a table
joined_name(fields, f) == IF f \in fields THEN f \o "_1" ELSE f

\* arcpy.management.JoinField on the zone field: the rows of the two tables correspond
\* one to one; a joined field whose name is taken is added as <name>_1
JoinField(in_data, join_table, fields) ==
  [fields |-> in_data.fields \cup {joined_name(in_data.fields, f) : f \in fields},
   rows |-> [i \in DOMAIN in_data.rows |->
               [in_data.rows[i] EXCEPT !.v =
                  [f \in TrackedFields |->
                     IF f \in fields /\ f \notin in_data.fields /\ f \in join_table.fields
                     THEN join_table.rows[i].v[f] ELSE @[f]]]]]

(***************************************************************************)
(* toolbox/addAttrUtils.py                                                 *)
(***************************************************************************)
\* del_existing_fields, lines 209-230
attr_fields == {"CoordType", "X_Coord_m", "Y_Coord_m", "UTMX", "UTMY", "Latitude", "Longitude",
                "WildName", "LandMgmt", "Watershed", "InPark", "InBuffer", "InMask", "Protected",
                "EastWest", "VegCode", "ElevMean", "SlopeMean", "Aspect", "paratio"}

\* addAttrUtils.del_existing_fields
del_existing_fields(fc) == DeleteField(fc, attr_fields \cap fc.fields)

\* select_calculate without its second half (lines 113-129): the rows that are not
\* selected keep what they had
select_calculate_without_invert(in_fc, selected, field) ==
  CalculateField(in_fc, selected, field, "1")

\* addAttrUtils.select_calculate: 1 for the rows selected under the relationship, then 0
\* for the rows of the inverted selection
select_calculate(in_fc, selected, field) ==
  CalculateField(CalculateField(in_fc, selected, field, "1"),
                 AllRows(in_fc) \ selected, field, "0")

\* addAttrUtils.zonal_stats_rename_field: the statistic is joined and renamed
zonal_stats_rename_field(fc, field_name) == AddField(fc, field_name)

(***************************************************************************)
(* toolbox/addAttrFunctions.py: the steps of add_attr_patches.             *)
(***************************************************************************)
\* Areas and lengths are counted in tenths of a square metre and of a metre, so that
\* 90004 stands for 9000.4.  round() of Python 3 on such a number: the nearest whole
\* number, and of the two nearest the even one
round(x) ==
  IF x % 10 < 5 THEN x - (x % 10)
  ELSE IF x % 10 > 5 THEN (x - (x % 10)) + 10
  ELSE IF (x \div 10) % 2 = 0 THEN x - 5 ELSE x + 5

\* update that cuts the decimals off instead of rounding
update_truncating(orig, new) == IF orig = new THEN orig ELSE new - (new % 10)

\* update_area_perim, lines 297-301: the code block of CalculateField
update(orig, new) == IF orig = new THEN orig ELSE round(new)

\* addAttrUtils.update_area_perim
update_area_perim(patches_fc) ==
  [patches_fc EXCEPT !.rows = [k \in DOMAIN patches_fc.rows |->
     [patches_fc.rows[k] EXCEPT !.area = update(@, patches_fc.rows[k].Shape_Area),
                                !.perim = update(@, patches_fc.rows[k].Shape_Length)]]]

\* clip_patches, line 39: arcpy.analysis.Clip leaves of every patch the part inside the
\* study area, whose area and length the geodatabase keeps in Shape_Area and Shape_Length
Clip(patches_fc) ==
  [patches_fc EXCEPT !.rows = [k \in DOMAIN patches_fc.rows |->
     [patches_fc.rows[k] EXCEPT !.Shape_Area = patches_fc.rows[k].inside_Area,
                                !.Shape_Length = patches_fc.rows[k].inside_Length]]]

\* clip_patches, lines 43-58: the patches smaller than the minimum mapping unit are deleted
delete_below_mmu(clipped_patches, mmu) ==
  [clipped_patches EXCEPT !.rows = SelectSeq(clipped_patches.rows,
                                             LAMBDA p : ~(p.Shape_Area < 30 * 30 * mmu * 10))]

\* addAttrFunctions.clip_patches
clip_patches(patches_fc, mmu) == update_area_perim(delete_below_mmu(Clip(patches_fc), mmu))

\* the fields of add_coords and add_utm_dd
coord_fields == {"CoordType", "X_Coord_m", "Y_Coord_m", "UTMX", "UTMY", "Longitude", "Latitude"}

\* add_coords on a feature class: the coordinate type of each row is that of add_coords
\* on its patches; Datum is added last and not when add_coords raised
coords_of(fc, r) ==
  [fc |-> [fields |-> fc.fields \cup (IF r.aborted = "no" THEN coord_fields \cup {"Datum"}
                                      ELSE {"CoordType"}),
           rows |-> [i \in DOMAIN fc.rows |->
                       [fc.rows[i] EXCEPT !.v["CoordType"] = IF r.aborted = "ValueError"
                                                              THEN "Central point"
                                                              ELSE r.CoordType[i]]]],
   aborted |-> r.aborted,
   warnings |-> r.warnings]

\* the patches as add_albers reads them
coord_rows(fc) ==
  [i \in DOMAIN fc.rows |-> [annualID |-> fc.rows[i].annualID, inside_fails |-> fc.rows[i].inside_fails]]

add_coords_fc(fc) == coords_of(fc, add_coords(coord_rows(fc)))

\* addAttrFunctions.create_central_points: the points have the fields of the patches
create_central_points(fc) == fc

\* add_land_mgmt_wild and add_watershed: spatial joins and renames on the points
add_land_mgmt_wild(pts) == [pts EXCEPT !.fields = @ \cup {"Join_Count", "TARGET_FID", "WildName", "LandMgmt"}]
add_watershed(pts) == [pts EXCEPT !.fields = @ \cup {"Join_Count", "TARGET_FID", "Watershed"}]

\* add_attrs_points, lines 413-416: the attributes of the central points
points_attrs(pts) ==
  select_calculate(
    select_calculate(add_watershed(add_land_mgmt_wild(pts)),
                     {i \in AllRows(pts) : pts.rows[i].in_park}, "InPark"),
    {i \in AllRows(pts) : pts.rows[i].in_buffer}, "InBuffer")

\* add_attrs_points, lines 470-481: the side of the crest on which the point lies
spatial_join_east_west(pts) ==
  [fields |-> pts.fields \cup {"Join_Count", "TARGET_FID", joined_name(pts.fields, "EastWest")},
   rows |-> [i \in DOMAIN pts.rows |->
               IF "EastWest" \in pts.fields THEN pts.rows[i]
               ELSE [pts.rows[i] EXCEPT !.v["EastWest"] = pts.rows[i].east_west]]]

\* add_attrs_points, lines 453-481: the parks with protected areas and a crest
points_protected(pts, existing_fields) ==
  spatial_join_east_west(
    DeleteField(select_calculate(pts, {i \in AllRows(pts) : pts.rows[i].in_protected}, "Protected"),
                {"EastWest"} \cap existing_fields))

\* add_attrs_points, lines 435-452: the fields are created and left null
points_null_fields(pts) == AddField(AddField(pts, "Protected"), "EastWest")

\* add_attrs_points, lines 483-498
join_fields(existing_fields) == {"Protected", "EastWest"} \ existing_fields

\* add_attrs_points, lines 430-498, given the points and the patches after the first join
join_protected(patches_fc, pts, protected_fc, east_west_fc) ==
  JoinField(IF protected_fc # None /\ east_west_fc # None
            THEN DeleteField(patches_fc, {"EastWest"} \cap pts.fields)
            ELSE patches_fc,
            IF protected_fc = None \/ east_west_fc = None
            THEN points_null_fields(pts)
            ELSE points_protected(pts, pts.fields),
            join_fields(pts.fields))

\* add_attrs_points, lines 419-428
join_points(patches_fc, pts, protected_fc, east_west_fc) ==
  join_protected(JoinField(patches_fc, pts, {"WildName", "LandMgmt", "Watershed", "InPark", "InBuffer"}),
                 pts, protected_fc, east_west_fc)

\* addAttrFunctions.add_attrs_points
add_attrs_points(patches_fc, central_pts_sa, protected_fc, east_west_fc) ==
  join_points(patches_fc, points_attrs(central_pts_sa), protected_fc, east_west_fc)

\* addAttrFunctions.add_veg_type
add_veg_type(fc) == AddField(AddField(fc, "VegValue"), "VegCode")

\* addAttrFunctions.add_zonal_geometry
add_zonal_geometry(fc) == JoinField(fc, fc, {"THICKNESS", "MAJORAXIS", "MINORAXIS", "ORIENTATION"})

\* add_paratio, line 781: the value of the expression !area! / ((0.282 * !perim!)**2),
\* written as the quotient it is
paratio(area, perim) == ToString(area) \o "/(0.282*" \o ToString(perim) \o ")^2"

\* addAttrFunctions.add_paratio
add_paratio(patches_fc) ==
  [fields |-> patches_fc.fields \cup {"paratio"},
   rows |-> [k \in DOMAIN patches_fc.rows |->
               [patches_fc.rows[k] EXCEPT
                  !.v["paratio"] = paratio(patches_fc.rows[k].area, patches_fc.rows[k].perim)]]]

(***************************************************************************)
(* toolbox/addAttr.py                                                      *)
(***************************************************************************)
\* add_attr_patches, lines 47-61: the reference layers that LEWI does not have
layer_of(park, name) == IF park # "LEWI" THEN name ELSE None

\* add_attr_patches, lines 95-108
attrs_after_points(patches_fc, mask_fc) ==
  add_zonal_geometry(
    zonal_stats_rename_field(
      zonal_stats_rename_field(
        zonal_stats_rename_field(
          add_veg_type(IF mask_fc # None
                       THEN select_calculate(patches_fc,
                                             {i \in AllRows(patches_fc) : patches_fc.rows[i].within_mask},
                                             "InMask")
                       ELSE patches_fc),
          "ElevMean"),
        "SlopeMean"),
      "Aspect"))

\* add_attr_patches, lines 78-108, given what add_coords did
attrs_after_coords(c, park) ==
  IF c.aborted # "no" THEN c
  ELSE [c EXCEPT !.fc = attrs_after_points(
                          add_attrs_points(c.fc, create_central_points(c.fc),
                                           layer_of(park, "protected_fc"),
                                           layer_of(park, "east_west_fc")),
                          layer_of(park, "mask_fc"))]

\* addAttr.add_attr_patches
add_attr_patches(patches_fc, park, clip_patches_sa, mmu) ==
  attrs_after_coords(
    add_coords_fc(IF clip_patches_sa THEN clip_patches(del_existing_fields(patches_fc), mmu)
                  ELSE del_existing_fields(patches_fc)),
    park)

(***************************************************************************)
(* toolbox/eventsFunctions.py                                              *)
(***************************************************************************)
\* add_event_fields, lines 21-22
event_field_names == {"EventType", "ChangeType", "Confidence", "AltType", "ChangeDesc", "EventDate",
                      "LabeledBy", "PriorRun", "PostDist", "DistName", "DistYear", "Split", "MapPatch"}

\* eventsFunctions.add_event_fields
add_event_fields(patches_fc) ==
  CalculateField([patches_fc EXCEPT !.fields = @ \cup event_field_names],
                 AllRows(patches_fc), "Split", "0")

\* add_annual_var, line 96: str(date.today()), the date of the run
today == "today"

\* add_annual_var, lines 95-96: the fields and, in the order of the fields, the texts that
\* the expression f'"{values[i]}"' gives to CalculateField
annual_var_fields == <<"EventType", "ChangeType", "Confidence", "EventDate", "LabeledBy", "PriorRun", "PostDist">>
annual_var_values == <<"Mask", "Annual Variability", "2", today, "Geoprocessing", "0", "0">>

\* add_annual_var, lines 99-105: the loop from field n on
RECURSIVE calculate_annual_var(_, _, _)
calculate_annual_var(fc, sel, n) ==
  IF n > Len(annual_var_fields) THEN fc
  ELSE calculate_annual_var(CalculateField(fc, sel, annual_var_fields[n], annual_var_values[n]), sel, n + 1)

\* eventsFunctions.add_annual_var over the selected patches
add_annual_var(fc, sel) == calculate_annual_var(fc, sel, 1)

\* label_elev_mask with the where clause "InMask = 0" of add_overlap_prev
label_elev_mask_outside_mask(patches_fc) ==
  add_annual_var(patches_fc, {i \in AllRows(patches_fc) : patches_fc.rows[i].v["InMask"] = "0"})

\* eventsFunctions.label_elev_mask
label_elev_mask(patches_fc) ==
  add_annual_var(patches_fc, {i \in AllRows(patches_fc) : patches_fc.rows[i].v["InMask"] = "1"})

\* eventsFunctions.label_water_mask
label_water_mask(patches_fc) ==
  add_annual_var(patches_fc, {i \in AllRows(patches_fc) : patches_fc.rows[i].in_water})

(***************************************************************************)
(* toolbox/addAttrFunctions.py: add_overlap_prev.                          *)
(***************************************************************************)
\* the layers of add_overlap_prev made without where clause, as lines 736-737 make them
overlap_layer_without_where(fc, park, events_mask) == AllRows(fc)

\* add_overlap_prev, lines 728-737: the patches of the layer made of fc
overlap_layer(fc, park, events_mask) ==
  IF events_mask THEN {i \in AllRows(fc) : fc.rows[i].v["EventType"] = None}
  ELSE IF park # "LEWI" THEN {i \in AllRows(fc) : fc.rows[i].v["InMask"] = "0"}
  ELSE AllRows(fc)

\* the field of the where clause of the layers; MakeFeatureLayer raises without it
overlap_field(park, events_mask) ==
  IF events_mask THEN {"EventType"} ELSE IF park # "LEWI" THEN {"InMask"} ELSE {}

\* two patches intersect by more than a shared border
overlaps(p, q) == p.loc = q.loc

\* add_overlap_prev, lines 741-748: the selection of base_lyr
overlap_selection(base_fc, prev_fc, park, events_mask) ==
  {i \in overlap_layer(base_fc, park, events_mask) :
     \E j \in overlap_layer(prev_fc, park, events_mask) : overlaps(base_fc.rows[i], prev_fc.rows[j])}

\* addAttrFunctions.add_overlap_prev
add_overlap_prev(base_fc, prev_fc, park, events_mask) ==
  IF overlap_field(park, events_mask) \subseteq (base_fc.fields \cap prev_fc.fields)
  THEN [fc |-> CalculateField(base_fc, overlap_selection(base_fc, prev_fc, park, events_mask),
                              "OverlapPrv", "1"),
        aborted |-> "no"]
  ELSE [fc |-> base_fc, aborted |-> "ExecuteError"]

(***************************************************************************)
(* toolbox/AddAttributesToPatches.py: the values the script computes.      *)
(*                                                                         *)
(* A geodatabase is a function from the names of its feature classes to    *)
(* the feature classes.  The feature class that FeatureClassToGeodatabase  *)
(* makes of change_<yr>.shp is named [yr |-> yr, n |-> 0]; n > 0 is the    *)
(* number that the tool appends to make a taken name unique (change_<yr>_n)*)
(* NoFc stands for the Python value None of prev_fc, base_fc, patches_fc.  *)
(***************************************************************************)
NoFc == [yr |-> 0, n |-> 0]
change(yr) == [yr |-> yr, n |-> 0]

EmptyGdb == [name \in {} |-> 0]
Exists(gdb, name) == name \in DOMAIN gdb
Put(gdb, name, fc) == [x \in DOMAIN gdb \cup {name} |-> IF x = name THEN fc ELSE gdb[x]]
Delete(gdb, name) == [x \in DOMAIN gdb \ {name} |-> gdb[x]]

\* the name of the cumulative feature class (line 52) and the one it is renamed to (line 234)
changeDB_fc == [start_yr |-> 0, end_yr |-> 0]
new_changeDB_fc(start_yr, end_yr) == [start_yr |-> start_yr, end_yr |-> end_yr]

\* lines 83-84 and 226-228
yods(fc) == {fc.rows[k].yod : k \in DOMAIN fc.rows}
max_yr(fc) == CHOOSE y \in yods(fc) : \A z \in yods(fc) : z <= y
min_yr(fc) == CHOOSE y \in yods(fc) : \A z \in yods(fc) : y <= z

\* shps.index(f"change_{yr}.shp"), counted from 1; 0 when index raises ValueError
shp_index(shapefiles, yr) ==
  IF \E k \in DOMAIN shapefiles : shapefiles[k].yr = yr
  THEN CHOOSE k \in DOMAIN shapefiles : shapefiles[k].yr = yr
  ELSE 0

\* resume_index without the except clause of lines 94-96: a year without shapefile starts
\* the loop at the first shapefile
resume_index_without_except(shapefiles, gdb, resume, yr) ==
  IF ~resume /\ yr = 0 THEN [error |-> "no", yr_index |-> 1, last_yr |-> 0]
  ELSE IF ~Exists(gdb, changeDB_fc) THEN [error |-> "ExecuteError", yr_index |-> 1, last_yr |-> 0]
  ELSE IF gdb[changeDB_fc].rows = <<>> THEN [error |-> "ValueError", yr_index |-> 1, last_yr |-> 0]
  ELSE [error |-> "no",
        yr_index |-> IF yr # 0 /\ shp_index(shapefiles, yr) # 0 THEN shp_index(shapefiles, yr)
                     ELSE IF resume /\ shp_index(shapefiles, max_yr(gdb[changeDB_fc]) + 1) # 0
                          THEN shp_index(shapefiles, max_yr(gdb[changeDB_fc]) + 1)
                          ELSE 1,
        last_yr |-> max_yr(gdb[changeDB_fc])]

\* lines 79-102: the position to start at, or the error that ends the run
resume_index(shapefiles, gdb, resume, yr) ==
  IF ~resume /\ yr = 0 THEN [error |-> "no", yr_index |-> 1, last_yr |-> 0]
  ELSE IF ~Exists(gdb, changeDB_fc) THEN [error |-> "ExecuteError", yr_index |-> 1, last_yr |-> 0]
  ELSE IF gdb[changeDB_fc].rows = <<>> THEN [error |-> "ValueError", yr_index |-> 1, last_yr |-> 0]
  ELSE IF resume /\ shp_index(shapefiles, max_yr(gdb[changeDB_fc]) + 1) = 0
       THEN [error |-> "ExecuteError", yr_index |-> 1, last_yr |-> max_yr(gdb[changeDB_fc])]
  ELSE IF yr # 0 /\ shp_index(shapefiles, yr) = 0
       THEN [error |-> "ExecuteError", yr_index |-> 1, last_yr |-> max_yr(gdb[changeDB_fc])]
  ELSE [error |-> "no",
        yr_index |-> IF yr # 0 THEN shp_index(shapefiles, yr)
                     ELSE shp_index(shapefiles, max_yr(gdb[changeDB_fc]) + 1),
        last_yr |-> max_yr(gdb[changeDB_fc])]

\* arcpy.ListFeatureClasses("change_*") of the default geodatabase, in the order of the names
name_before(a, b) == a.yr < b.yr \/ (a.yr = b.yr /\ a.n < b.n)
first_name(names) == CHOOSE a \in names : \A b \in names : a = b \/ name_before(a, b)
second_name(names) == first_name(names \ {first_name(names)})

\* line 113: int(fc_list[0][-4:]); int() reads the "01_1" of change_2001_1 as 11
name_year(name) == IF name.n = 0 THEN name.yr ELSE (name.yr % 100) * 10 + name.n

\* lines 105-125: the two feature classes that an interrupted run left behind
resume_fcs(gdb, last_yr) ==
  IF Cardinality(DOMAIN gdb) # 2
  THEN [error |-> "ExecuteError", base_fc |-> NoFc, patches_fc |-> NoFc]
  ELSE IF name_year(first_name(DOMAIN gdb)) = last_yr
       THEN [error |-> "no", base_fc |-> first_name(DOMAIN gdb), patches_fc |-> second_name(DOMAIN gdb)]
       ELSE [error |-> "no", base_fc |-> NoFc, patches_fc |-> NoFc]

\* lines 133-138: the patches of the last year of the cumulative feature class
select_year(fc, yr) == [fc EXCEPT !.rows = SelectSeq(fc.rows, LAMBDA p : p.yod = yr)]

\* lines 184-192: the event fields and the labels of the masks
add_events(patches_fc, park, events_mask) ==
  IF ~events_mask THEN patches_fc
  ELSE label_water_mask(IF park # "LEWI" THEN label_elev_mask(add_event_fields(patches_fc))
                        ELSE add_event_fields(patches_fc))

\* arcpy.management.Append (AppendFeatures here) with schema_type TEST_AND_SKIP: an input whose fields do not
\* match the target is skipped with a warning
AppendFeatures(inputs, target) ==
  IF inputs.fields = target.fields THEN [target EXCEPT !.rows = @ \o inputs.rows] ELSE target

\* patch_name with the year of the patch in the place of the first and of the last
\* year of the cumulative dataset
patch_name_of_year(patch, park, mmu, start_yr, end_yr) ==
  park \o "_" \o ToString(mmu) \o "_" \o patch.index \o "_" \o ToString(patch.yod) \o "_"
    \o ToString(patch.yod) \o "_" \o ToString(patch.yod) \o "_" \o ToString(patch.annualID)

\* add_park_patch_name, line 706: the expression of PatchName for one patch; index is a
\* text field, yod and annualID go through str()
patch_name(patch, park, mmu, start_yr, end_yr) ==
  park \o "_" \o ToString(mmu) \o "_" \o patch.index \o "_" \o ToString(start_yr) \o "_"
    \o ToString(end_yr) \o "_" \o ToString(patch.yod) \o "_" \o ToString(patch.annualID)

\* add_park_patch_name, lines 694-708: PatchName is added and calculated for every patch
calculate_patch_name(fc, park, mmu, start_yr, end_yr) ==
  [fields |-> fc.fields \cup {"PatchName"},
   rows |-> [k \in DOMAIN fc.rows |->
               [fc.rows[k] EXCEPT !.v["PatchName"] = patch_name(fc.rows[k], park, mmu, start_yr, end_yr)]]]

\* addAttrFunctions.add_park_patch_name
add_park_patch_name(changeDB, park, mmu, start_yr, end_yr) ==
  calculate_patch_name(CalculateField(AddField(changeDB, "Park"), AllRows(changeDB), "Park", park),
                       park, mmu, start_yr, end_yr)

(***************************************************************************)
(* toolbox/AddAttributesToPatches.py: the steps of the script.             *)
(*                                                                         *)
(* s is the state of a run: the parameters of the tool (shps, park,        *)
(* events_mask, clip_patches_sa, resume_prev, shp_yr; shp_yr = 0 is the    *)
(* empty text), the setting arcpy.env.overwriteOutput, the two             *)
(* geodatabases, the variables of the script and the place the script is   *)
(* at (run_pc).  Positions in shps are counted from 1.                     *)
(***************************************************************************)
\* an arcpy.ExecuteError or a Python exception ends the script
abort(s, error) == [s EXCEPT !.run_status = error, !.run_pc = "done"]

\* lines 128-141: the baseline of the year to start with
start_explicit(s) ==
  IF s.shp_yr = 0 THEN [s EXCEPT !.run_pc = "convert"]
  ELSE IF Exists(s.default_gdb, change(s.shp_yr)) /\ ~s.overwriteOutput
       THEN abort([s EXCEPT !.base_fc = change(s.shp_yr)], "ExecuteError")
       ELSE [s EXCEPT !.base_fc = change(s.shp_yr),
                      !.default_gdb = Put(@, change(s.shp_yr),
                                          select_year(s.run_gdb[changeDB_fc], s.last_yr)),
                      !.run_pc = "convert"]

\* lines 105-125
start_resume(s, fcs) ==
  IF fcs.error # "no" THEN abort(s, fcs.error)
  ELSE start_explicit([s EXCEPT !.base_fc = fcs.base_fc, !.patches_fc = fcs.patches_fc])

\* lines 79-102
start_index(s, idx) ==
  IF idx.error # "no" THEN abort(s, idx.error)
  ELSE start_resume([s EXCEPT !.yr_index = idx.yr_index, !.i = idx.yr_index, !.last_yr = idx.last_yr],
                    IF s.resume_prev THEN resume_fcs(s.default_gdb, idx.last_yr)
                    ELSE [error |-> "no", base_fc |-> NoFc, patches_fc |-> NoFc])

\* lines 62-141: the script up to the loop
start_run(s) == start_index(s, resume_index(s.shps, s.run_gdb, s.resume_prev, s.shp_yr))

\* the name FeatureClassToGeodatabase gives to its output when change_<yr> is taken
unique_name(gdb, yr) ==
  [yr |-> yr,
   n |-> CHOOSE n \in 1..(Cardinality(DOMAIN gdb) + 1) :
           /\ ~Exists(gdb, [yr |-> yr, n |-> n])
           /\ \A m \in 1..(n - 1) : Exists(gdb, [yr |-> yr, n |-> m])]

\* arcpy.conversion.FeatureClassToGeodatabase: where the feature class of the shapefile goes
conversion_name(gdb, yr, overwriteOutput) ==
  IF Exists(gdb, change(yr)) /\ ~overwriteOutput THEN unique_name(gdb, yr) ELSE change(yr)

\* lines 146-166: the feature class of the year
convert(s) ==
  IF s.resume_prev /\ s.i = s.yr_index
  THEN IF s.patches_fc = NoFc THEN abort(s, "RuntimeError")
       ELSE [s EXCEPT !.default_gdb = Put(@, s.patches_fc, del_existing_fields(@[s.patches_fc])),
                      !.run_pc = "attributes"]
  ELSE [s EXCEPT !.default_gdb = Put(@, conversion_name(@, s.shps[s.i].yr, s.overwriteOutput),
                                     s.shps[s.i].fc),
                 !.patches_fc = change(s.shps[s.i].yr),
                 !.run_pc = "attributes"]

\* lines 169-181, given what add_attr_patches did
attributes_done(s, r) ==
  IF r.aborted # "no"
  THEN abort([s EXCEPT !.default_gdb = Put(@, s.patches_fc, r.fc)], r.aborted)
  ELSE [s EXCEPT !.default_gdb = Put(@, s.patches_fc, add_paratio(r.fc)), !.run_pc = "events"]

\* lines 169-181: add_attr_patches and add_paratio
attributes(s) ==
  attributes_done(s, add_attr_patches(s.default_gdb[s.patches_fc], s.park, s.clip_patches_sa, s.mmu))

\* lines 184-192
events(s) ==
  [s EXCEPT !.default_gdb = Put(@, s.patches_fc, add_events(@[s.patches_fc], s.park, s.events_mask)),
            !.run_pc = "overlap"]

\* overlap_done without the Delete of line 212: the dataset of the previous year stays
overlap_done_keeping_prev(s, r) ==
  IF r.aborted # "no" THEN abort(s, r.aborted)
  ELSE [s EXCEPT !.default_gdb = Put(@, s.base_fc, r.fc),
                 !.overlap_log = Append(@, [yr |-> s.shps[s.i].yr,
                                            explicit |-> s.shp_yr # 0 /\ s.i = s.yr_index,
                                            base |-> s.default_gdb[s.base_fc],
                                            prev |-> s.default_gdb[s.prev_fc],
                                            flagged |-> r.fc]),
                 !.run_pc = "append"]

\* lines 209-212, given what add_overlap_prev did
overlap_done(s, r) ==
  IF r.aborted # "no" THEN abort(s, r.aborted)
  ELSE [s EXCEPT !.default_gdb = Delete(Put(@, s.base_fc, r.fc), s.prev_fc),
                 !.overlap_log = Append(@, [yr |-> s.shps[s.i].yr,
                                            explicit |-> s.shp_yr # 0 /\ s.i = s.yr_index,
                                            base |-> s.default_gdb[s.base_fc],
                                            prev |-> s.default_gdb[s.prev_fc],
                                            flagged |-> r.fc]),
                 !.run_pc = "append"]

\* lines 206-212
overlap_prev(s) ==
  IF s.prev_fc = NoFc THEN [s EXCEPT !.run_pc = "append"]
  ELSE overlap_done(s, add_overlap_prev(s.default_gdb[s.base_fc], s.default_gdb[s.prev_fc],
                                        s.park, s.events_mask))

\* lines 195-212: the feature classes move on, OverlapPrv is added and filled
overlap(s) ==
  overlap_prev([s EXCEPT !.prev_fc = s.base_fc, !.base_fc = s.patches_fc,
                         !.default_gdb = Put(@, s.patches_fc, AddField(@[s.patches_fc], "OverlapPrv"))])

\* line 144: the next year of the loop, or the end of the loop
next_year(s) ==
  [s EXCEPT !.i = @ + 1, !.run_pc = IF s.i + 1 > Len(s.shps) THEN "finish" ELSE "convert"]

\* lines 216-220: the patches of the year go to the cumulative feature class
append(s) ==
  IF ~Exists(s.default_gdb, s.patches_fc) THEN abort(s, "ExecuteError")
  ELSE next_year([s EXCEPT !.run_gdb =
                     IF Exists(@, changeDB_fc)
                     THEN Put(@, changeDB_fc, AppendFeatures(s.default_gdb[s.patches_fc], @[changeDB_fc]))
                     ELSE Put(@, changeDB_fc, s.default_gdb[s.patches_fc])])

\* lines 226-236, given the cumulative feature class with Park and PatchName
rename_changeDB(s, fc) ==
  IF Exists(s.run_gdb, new_changeDB_fc(min_yr(fc), max_yr(fc))) /\ ~s.overwriteOutput
  THEN abort([s EXCEPT !.run_gdb = Put(@, changeDB_fc, fc)], "ExecuteError")
  ELSE [s EXCEPT !.run_gdb = Put(Delete(@, changeDB_fc), new_changeDB_fc(min_yr(fc), max_yr(fc)), fc),
                 !.run_status = "ok", !.run_pc = "done"]

\* lines 223-236: the end of the script
finish(s) ==
  IF ~Exists(s.default_gdb, s.base_fc) THEN abort(s, "ExecuteError")
  ELSE rename_changeDB([s EXCEPT !.default_gdb = Delete(@, s.base_fc)],
                       add_park_patch_name(s.run_gdb[changeDB_fc], s.park, s.mmu,
                                           min_yr(s.run_gdb[changeDB_fc]), max_yr(s.run_gdb[changeDB_fc])))

\* the step of the script at run_pc
step(s) ==
  CASE s.run_pc = "start" -> start_run(s)
    [] s.run_pc = "convert" -> convert(s)
    [] s.run_pc = "attributes" -> attributes(s)
    [] s.run_pc = "events" -> events(s)
    [] s.run_pc = "overlap" -> overlap(s)
    [] s.run_pc = "append" -> append(s)
    [] s.run_pc = "finish" -> finish(s)
    [] OTHER -> s

\* the script from s to its end
RECURSIVE run_to_end(_)
run_to_end(s) == IF s.run_pc = "done" THEN s ELSE run_to_end(step(s))

\* the tool is started by the user, with its parameters, on the geodatabases as they are
launch(s, resume_prev, shp_yr) ==
  [s EXCEPT !.resume_prev = resume_prev, !.shp_yr = shp_yr,
            !.yr_index = 1, !.i = 1, !.last_yr = 0,
            !.prev_fc = NoFc, !.base_fc = NoFc, !.patches_fc = NoFc,
            !.run_pc = "start", !.run_status = "running"]

(***************************************************************************)
(* The inputs of the attribute tools.                                      *)
(***************************************************************************)
\* the fields of a shapefile of patches
shp_fields == {"annualID", "index", "yod", "area", "perim", "Shape_Area", "Shape_Length"}

\* the fields of a feature class of patches that has its attributes already
done_fields ==
  shp_fields \cup attr_fields \cup {"Datum", "VegValue", "THICKNESS", "MAJORAXIS", "MINORAXIS",
                                    "ORIENTATION"}

\* the first year of change
FirstYear == 2001
Years == FirstYear..(FirstYear + NumYears - 1)

Parks == {"LEWI", "MORA"}

\* a patch inside the park and its buffer, outside the protected areas and the masks,
\* whose central point can be computed, that lies inside the study area and whose area
\* and perim are those of its geometry (9000 square metres, 420 metres)
DefaultPatch(yod, annualID) ==
  [annualID |-> annualID, yod |-> yod, index |-> "7", loc |-> "a",
   in_park |-> TRUE, in_buffer |-> TRUE, in_protected |-> FALSE, east_west |-> "East",
   within_mask |-> FALSE, in_water |-> FALSE, inside_fails |-> FALSE,
   area |-> 90000, perim |-> 4200, Shape_Area |-> 90000, Shape_Length |-> 4200,
   inside_Area |-> 90000, inside_Length |-> 4200,
   v |-> NoValues]

\* the patches of the runs of the script: one that overlaps the default patch, one that
\* lies apart from it, one inside the elevation mask and one inside the water mask
PatchKinds == {"open", "apart", "mask", "water"}

RunPatch(yod, kind) ==
  [DefaultPatch(yod, 1) EXCEPT !.loc = IF kind = "apart" THEN "b" ELSE "a",
                               !.within_mask = (kind = "mask"),
                               !.in_water = (kind = "water")]

shapefile(yr, patch) == [yr |-> yr, fc |-> [fields |-> shp_fields, rows |-> <<patch>>]]

\* the folders of shapefiles: one shapefile a year, each with one patch, of which at most
\* one is not the default patch
Folders ==
  {[k \in 1..NumYears |->
      shapefile(FirstYear + k - 1,
                RunPatch(FirstYear + k - 1, IF k = other THEN kind ELSE "open"))] :
     other \in 1..NumYears, kind \in PatchKinds}

\* the texts of the parameter "Year to Resume With": none, a year of the folder, or the
\* year after the last
NominatedYears == {0} \cup Years \cup {FirstYear + NumYears}

\* the patches of add_attr_patches: every position with respect to the park, the buffer,
\* the protected areas and the elevation mask, a patch that the clip makes too small
\* (2700.4 square metres), a patch that the clip cuts (6300.5 square metres, 361.5
\* metres), a patch whose area and perim are not those of its geometry (9050.4 square
\* metres, 422.5 metres) and a patch without central point
AttrPatches(annualID) ==
  {[DefaultPatch(FirstYear, annualID) EXCEPT !.in_park = a, !.in_buffer = b, !.in_protected = c,
                                             !.within_mask = d] :
     a \in BOOLEAN, b \in BOOLEAN, c \in BOOLEAN, d \in BOOLEAN}
  \cup {[DefaultPatch(FirstYear, annualID) EXCEPT !.inside_Area = 27004, !.inside_Length = 2400],
        [DefaultPatch(FirstYear, annualID) EXCEPT !.inside_Area = 63005, !.inside_Length = 3615],
        [DefaultPatch(FirstYear, annualID) EXCEPT !.Shape_Area = 90504, !.Shape_Length = 4225,
                                                  !.inside_Area = 90504, !.inside_Length = 4225],
        [DefaultPatch(FirstYear, annualID) EXCEPT !.inside_fails = TRUE],
        [DefaultPatch(FirstYear, annualID) EXCEPT !.east_west = None]}

\* the attribute values that an earlier run of the tool left in a patch
stale(patch) ==
  [patch EXCEPT !.v = [f \in TrackedFields |-> IF f \in {"InPark", "InBuffer", "Protected", "InMask"}
                                              THEN "1"
                                              ELSE IF f = "CoordType" THEN "Centroid"
                                              ELSE IF f = "EastWest" THEN "West" ELSE None]]

AttrTables == UNION {{t \in [1..n -> UNION {AttrPatches(k) : k \in 1..n}] :
                        \A k \in 1..n : t[k].annualID = k} : n \in 0..MaxAttrRows}

\* the feature classes of add_attr_patches: new from a shapefile, or with the attributes
\* of an earlier run
AttrFcs ==
  {[fields |-> shp_fields, rows |-> t] : t \in AttrTables}
  \cup {[fields |-> done_fields, rows |-> [k \in DOMAIN t |-> stale(t[k])]] : t \in AttrTables}

(***************************************************************************)
(* toolbox/ExportPatches.py: the loop over the feature classes.            *)
(***************************************************************************)
VARIABLES
  patches_fcs,    \* the feature classes to process
  export_csv,     \* the checkbox "export as CSV"
  export_gee,     \* the checkbox "export for GEE"
  fcIdx,          \* the position of the loop `for fc in patches_fcs`
  pc,             \* "csv", "gee": the next export of patches_fcs[fcIdx]; "done"
  no_export_csv,  \* Python value: "True", "False" or "None"
  no_export_gee,
  outputs,        \* the artifacts written: [fc |-> position, kind |-> "csv" or "shp"]
  status,         \* "running", "ok", "ExecuteError" (the final raise), "TypeError"
  calls,          \* the calls of the export functions so far, with what they did
  coords,         \* add_coords: the yearly dataset (fc) and what add_coords made of it
  attr,           \* add_attr_patches: its arguments and what it made of the feature class
  run,            \* AddAttributesToPatches.py: the state of the run
  sync,           \* update_area_perim: a feature class and what the calls made of it
  join,           \* JoinLabelsToPatches.py: the dataset, the lookup table and what the join left
  save            \* ExportPatches.py, lines 52-84: the output folders and the path of the CSV

exportVars == <<patches_fcs, export_csv, export_gee, fcIdx, pc, no_export_csv, no_export_gee,
                outputs, status, calls>>

vars == <<exportVars, coords, attr, run, sync, join, save>>

\* the tools that a specification does not follow
CoordsIdle == [fc |-> <<>>, done |-> TRUE]
AttrIdle == [done |-> TRUE, paratio_done |-> TRUE]
RunIdle == [run_status |-> "idle", run_pc |-> "done"]

SyncIdle == [times |-> 2]
JoinIdle == [done |-> TRUE]
SaveIdle == [done |-> TRUE]

LaterToolsIdle ==
  /\ sync = SyncIdle
  /\ join = JoinIdle
  /\ save = SaveIdle

OtherToolsIdle ==
  /\ coords = CoordsIdle
  /\ attr = AttrIdle
  /\ run = RunIdle
  /\ LaterToolsIdle

Start ==
  /\ fcIdx = 1
  /\ pc = "csv"
  /\ no_export_csv = "False"
  /\ no_export_gee = "False"
  /\ outputs = {}
  /\ status = "running"
  /\ calls = <<>>

\* a run of the tool over up to NumFcs feature classes
Init ==
  /\ patches_fcs \in UNION {[1..n -> BatchFcs] : n \in 0..NumFcs}
  /\ export_csv \in BOOLEAN
  /\ export_gee \in BOOLEAN
  /\ Start
  /\ OtherToolsIdle

\* a run of the tool over one feature class, with one of the two exports
InitExport ==
  /\ patches_fcs \in {<<fc>> : fc \in FeatureClasses}
  /\ export_csv \in BOOLEAN
  /\ export_gee = ~export_csv
  /\ Start
  /\ OtherToolsIdle

\* lines 86-87: what the call of export_patches_csv leaves behind
CsvCall(r) ==
  /\ calls' = Append(calls, [fc |-> fcIdx, kind |-> "csv", r |-> r])
  /\ outputs' = IF r.written THEN outputs \cup {[fc |-> fcIdx, kind |-> "csv"]} ELSE outputs
  /\ IF r.raised
     THEN /\ status' = "TypeError" /\ pc' = "done"
          /\ UNCHANGED no_export_csv
     ELSE /\ no_export_csv' = py_or(no_export_csv, r.ret)
          /\ pc' = "gee"
          /\ UNCHANGED status

\* lines 51-87: the CSV export of the current feature class
ExportCsvStep ==
  /\ status = "running" /\ pc = "csv" /\ fcIdx <= Len(patches_fcs)
  /\ IF export_csv
     THEN CsvCall(export_patches_csv(patches_fcs[fcIdx]))
     ELSE /\ pc' = "gee"
          /\ UNCHANGED <<calls, outputs, status, no_export_csv>>
  /\ UNCHANGED <<patches_fcs, export_csv, export_gee, fcIdx, no_export_gee>>
  /\ UNCHANGED <<coords, attr, run, sync, join, save>>

\* lines 91-92: what the call of export_patches_shp leaves behind
GeeCall(r) ==
  /\ calls' = Append(calls, [fc |-> fcIdx, kind |-> "shp", r |-> r])
  /\ outputs' = IF r.written THEN outputs \cup {[fc |-> fcIdx, kind |-> "shp"]} ELSE outputs
  /\ IF r.raised
     THEN /\ status' = "TypeError" /\ pc' = "done"
          /\ UNCHANGED <<no_export_gee, fcIdx>>
     ELSE /\ no_export_gee' = py_or(no_export_gee, r.ret)
          /\ pc' = "csv" /\ fcIdx' = fcIdx + 1
          /\ UNCHANGED status

\* lines 89-92: the export for GEE of the current feature class
ExportGeeStep ==
  /\ status = "running" /\ pc = "gee"
  /\ IF export_gee
     THEN GeeCall(export_patches_shp(patches_fcs[fcIdx]))
     ELSE /\ pc' = "csv" /\ fcIdx' = fcIdx + 1
          /\ UNCHANGED <<calls, outputs, status, no_export_gee>>
  /\ UNCHANGED <<patches_fcs, export_csv, export_gee, no_export_csv>>
  /\ UNCHANGED <<coords, attr, run, sync, join, save>>

\* lines 94-96: the end of the run
Finish ==
  /\ status = "running" /\ pc = "csv" /\ fcIdx > Len(patches_fcs)
  /\ status' = IF truthy(py_or(no_export_csv, no_export_gee)) THEN "ExecuteError" ELSE "ok"
  /\ pc' = "done"
  /\ UNCHANGED <<patches_fcs, export_csv, export_gee, fcIdx, no_export_csv, no_export_gee,
                 outputs, calls>>
  /\ UNCHANGED <<coords, attr, run, sync, join, save>>

Next == ExportCsvStep \/ ExportGeeStep \/ Finish

Spec == Init /\ [][Next]_vars

SpecExport == InitExport /\ [][Next]_vars

(***************************************************************************)
(* The attribute tools as state machines.                                  *)
(*                                                                         *)
(* coords: add_coords on one yearly dataset.                               *)
(* attr:   add_attr_patches on one feature class.                          *)
(* run:    toolbox/AddAttributesToPatches.py.  The script is followed step *)
(*         by step; it can be interrupted between two steps, and the user  *)
(*         then starts the tool again, with the parameters of their choice,*)
(*         on the geodatabases as the interrupted run left them.           *)
(***************************************************************************)
ExportIdle ==
  /\ patches_fcs = <<>>
  /\ export_csv = FALSE
  /\ export_gee = FALSE
  /\ fcIdx = 1
  /\ pc = "done"
  /\ no_export_csv = "False"
  /\ no_export_gee = "False"
  /\ outputs = {}
  /\ status = "idle"
  /\ calls = <<>>

InitCoords ==
  /\ coords \in {[fc |-> f, done |-> FALSE, result |-> coords_value_error] : f \in CoordFcs}
  /\ attr = AttrIdle
  /\ run = RunIdle
  /\ ExportIdle
  /\ LaterToolsIdle

\* add_coords is applied to the yearly dataset
AddCoords ==
  /\ ~coords.done
  /\ coords' = [coords EXCEPT !.done = TRUE, !.result = add_coords(coords.fc)]
  /\ UNCHANGED <<exportVars, attr, run, sync, join, save>>

NextCoords == AddCoords

SpecCoords == InitCoords /\ [][NextCoords]_vars

\* the two tools that call add_attr_patches, with the value each gives to
\* clip_patches_sa: the user's choice (AddAttributesToPatches.py, line 29) and False
\* (AddAttrToSelectPatchesExportCSV.py, line 61)
AttrTools ==
  {[tool |-> "AddAttributesToPatches", clip_patches_sa |-> c] : c \in BOOLEAN}
  \cup {[tool |-> "AddAttrToSelectPatches", clip_patches_sa |-> FALSE]}

InitAttr ==
  /\ attr \in {[patches_fc |-> f, park |-> p, tool |-> t.tool, clip_patches_sa |-> t.clip_patches_sa,
                mmu |-> 5, done |-> FALSE, paratio_done |-> FALSE,
                result |-> [fc |-> f, aborted |-> "no", warnings |-> <<>>]] :
                 f \in AttrFcs, p \in Parks, t \in AttrTools}
  /\ coords = CoordsIdle
  /\ run = RunIdle
  /\ ExportIdle
  /\ LaterToolsIdle

\* add_attr_patches is applied to the feature class
AddAttrPatches ==
  /\ ~attr.done
  /\ attr' = [attr EXCEPT !.done = TRUE,
                          !.result = add_attr_patches(attr.patches_fc, attr.park,
                                                      attr.clip_patches_sa, attr.mmu)]
  /\ UNCHANGED <<exportVars, coords, run, sync, join, save>>

\* what the tool does with the feature class after add_attr_patches:
\* AddAttributesToPatches.py, line 181, and AddAttrToSelectPatchesExportCSV.py, lines 66-69
paratio_step(tool, patches_fc) ==
  IF tool = "AddAttrToSelectPatches" THEN add_paratio(update_area_perim(patches_fc))
  ELSE add_paratio(patches_fc)

\* the tool adds paratio to the feature class that add_attr_patches has enriched
AddParatio ==
  /\ attr.done /\ ~attr.paratio_done /\ attr.result.aborted = "no"
  /\ attr' = [attr EXCEPT !.paratio_done = TRUE,
                          !.result.fc = paratio_step(attr.tool, attr.result.fc)]
  /\ UNCHANGED <<exportVars, coords, run, sync, join, save>>

NextAttr == AddAttrPatches \/ AddParatio

SpecAttr == InitAttr /\ [][NextAttr]_vars

\* the state before the first run of the tool: nothing in the two geodatabases
fresh(shps, park, events_mask, overwriteOutput) ==
  [shps |-> shps, park |-> park, events_mask |-> events_mask, clip_patches_sa |-> FALSE,
   mmu |-> 5, overwriteOutput |-> overwriteOutput,
   resume_prev |-> FALSE, shp_yr |-> 0,
   run_gdb |-> EmptyGdb, default_gdb |-> EmptyGdb,
   yr_index |-> 1, i |-> 1, last_yr |-> 0,
   prev_fc |-> NoFc, base_fc |-> NoFc, patches_fc |-> NoFc,
   run_pc |-> "start", run_status |-> "running",
   overlap_log |-> <<>>, relaunched |-> FALSE, interrupted_at |-> "no",
   interruptions_left |-> 1]

InitRun ==
  /\ run \in {launch(fresh(d, p, e, o), r, y) :
                d \in Folders, p \in Parks, e \in BOOLEAN, o \in BOOLEAN,
                r \in BOOLEAN, y \in NominatedYears}
  /\ coords = CoordsIdle
  /\ attr = AttrIdle
  /\ ExportIdle
  /\ LaterToolsIdle

Running(at) == run.run_status = "running" /\ run.run_pc = at

StartRun == Running("start") /\ run' = start_run(run) /\ UNCHANGED <<exportVars, coords, attr, sync, join, save>>
Convert == Running("convert") /\ run' = convert(run) /\ UNCHANGED <<exportVars, coords, attr, sync, join, save>>
AddAttributes == Running("attributes") /\ run' = attributes(run) /\ UNCHANGED <<exportVars, coords, attr, sync, join, save>>
AddEvents == Running("events") /\ run' = events(run) /\ UNCHANGED <<exportVars, coords, attr, sync, join, save>>
Overlap == Running("overlap") /\ run' = overlap(run) /\ UNCHANGED <<exportVars, coords, attr, sync, join, save>>
AppendYear == Running("append") /\ run' = append(run) /\ UNCHANGED <<exportVars, coords, attr, sync, join, save>>
FinishRun == Running("finish") /\ run' = finish(run) /\ UNCHANGED <<exportVars, coords, attr, sync, join, save>>

\* the run stops between two steps of the script (a failure that does not persist)
Interrupt ==
  /\ run.run_status = "running" /\ run.run_pc \notin {"start", "done"}
  /\ run.interruptions_left > 0
  /\ run' = [run EXCEPT !.run_status = "interrupted", !.interrupted_at = run.run_pc,
                        !.interruptions_left = @ - 1]
  /\ UNCHANGED <<exportVars, coords, attr, sync, join, save>>

\* the user starts the tool again after the interruption
Relaunch ==
  /\ run.run_status = "interrupted"
  /\ \E r \in BOOLEAN, y \in NominatedYears :
       run' = [launch(run, r, y) EXCEPT !.relaunched = TRUE]
  /\ UNCHANGED <<exportVars, coords, attr, sync, join, save>>

NextRun ==
  \/ StartRun \/ Convert \/ AddAttributes \/ AddEvents \/ Overlap \/ AppendYear \/ FinishRun
  \/ Interrupt \/ Relaunch

SpecRun == InitRun /\ [][NextRun]_vars

\* the runs of the tool on one folder that are interrupted up to twice: the first run
\* starts without resuming, and the user chooses the parameters of the two relaunches
InitResume ==
  /\ run \in {[launch(fresh([k \in 1..NumYears |->
                                 shapefile(FirstYear + k - 1, RunPatch(FirstYear + k - 1, "open"))],
                              p, FALSE, o), FALSE, 0) EXCEPT !.interruptions_left = 2] :
                p \in Parks, o \in BOOLEAN}
  /\ coords = CoordsIdle
  /\ attr = AttrIdle
  /\ ExportIdle
  /\ LaterToolsIdle

SpecResume == InitResume /\ [][NextRun]_vars


(***************************************************************************)
(* Properties of the export.                                               *)
(***************************************************************************)

\* the artifact that call k writes, the table it validates, and the table it read
Artifact(k) == [fc |-> calls[k].fc, kind |-> calls[k].kind]
Exported(k) == calls[k].r.pv.csv_df.data
Source(k) == calls[k].r.pv.extracted.data
Ended(k) == ~calls[k].r.raised

\* C1: in both export paths an artifact is written only when every check that
\* export_patches_csv / export_patches_shp makes has run and passed; a
\* feature class for which one of the checks failed has no artifact.
C1_NoArtifactWhenValidationFails ==
  /\ \A k \in 1..Len(calls) :
       LET r == calls[k].r
           failed == \/ r.pv.change_type.no_export \/ r.pv.confidence.no_export
                     \/ r.pv.duplicates.no_export \/ r.values.no_export
           passed == /\ r.pv.change_type.ran /\ r.pv.confidence.ran /\ r.pv.duplicates.ran
                     /\ (calls[k].kind = "shp" => r.values.ran)
                     /\ ~failed
       IN /\ failed => Artifact(k) \notin outputs
          /\ Artifact(k) \in outputs => passed
  /\ \A a \in outputs : \E k \in 1..Len(calls) : Artifact(k) = a

\* C1 witness: only the duplicate check failed and nothing was written
C1_Witness ==
  \E k \in 1..Len(calls) :
    /\ calls[k].r.pv.duplicates.no_export
    /\ ~calls[k].r.pv.change_type.no_export /\ ~calls[k].r.pv.confidence.no_export
    /\ ~calls[k].r.values.no_export
    /\ Artifact(k) \notin outputs
    /\ pc # "csv"

InvalidType(v) == notna(v) /\ v # Blank /\ v \notin ValidChangeTypes

\* C2 (as claimed): every check is executed whatever the earlier ones found, the
\* export is refused iff one of them failed, and a table with a ChangeType
\* mismatch and a duplicate PatchName has both reported.
C2_ExhaustiveValidation ==
  \A k \in 1..Len(calls) :
    LET r == calls[k].r
        rows == Exported(k)
    IN /\ r.pv.change_type.ran /\ r.pv.confidence.ran /\ r.pv.duplicates.ran
       /\ (calls[k].kind = "shp" => r.values.ran)
       /\ r.no_export = (\/ r.pv.change_type.no_export \/ r.pv.confidence.no_export
                         \/ r.pv.duplicates.no_export \/ r.values.no_export)
       /\ ( /\ \E i \in 1..Len(rows) : InvalidType(rows[i]["ChangeType"])
            /\ \E i, j \in 1..Len(rows) : i # j /\ rows[i]["PatchName"] = rows[j]["PatchName"] )
          => (r.pv.change_type.mismatches # <<>> /\ r.pv.duplicates.duplicate_patches # <<>>)

ClaimedRows(k) == IF calls[k].kind = "csv" THEN Source(k) ELSE Exported(k)

HasEvent(row) == notna(row["EventType"]) /\ row["EventType"] # Blank

\* C4 (as claimed): in both paths a row with an event whose Confidence is not
\* 1, 2 or 3 (the sentinel 0 and null included) makes the export be refused.
C4_ConfidenceInRange ==
  \A k \in 1..Len(calls) :
    LET rows == ClaimedRows(k)
    IN Ended(k) =>
         ((\E i \in 1..Len(rows) :
             HasEvent(rows[i]) /\ rows[i]["Confidence"] \notin {"1", "2", "3"})
          => Artifact(k) \notin outputs)

C6_ChangeTypesValid ==
  \A k \in 1..Len(calls) :
    LET rows == Exported(k)
        ct == calls[k].r.pv.change_type
    IN Ended(k) =>
         \A i \in 1..Len(rows) : \A col \in {"ChangeType", "AltType"} :
           InvalidType(rows[i][col])
           => /\ <<rows[i][col], rows[i]["PatchName"]>> \in Range(ct.mismatches)
              /\ Artifact(k) \notin outputs

CheckedFields == Range(exp_fields) \ {"AltType", "ChangeDesc", "DistYear", "DistName"}

MissingIn(rows) ==
  {f \in CheckedFields : \E i \in 1..Len(rows) : isna(rows[i][f]) \/ rows[i][f] = Blank}

\* C7: in the shapefile export check_fields_have_values lists exactly the
\* fields of the export list, other than AltType, ChangeDesc, DistYear and
\* DistName, that are null or blank in some exported row, and a table with
\* such a field is not exported.
C7_RequiredValues ==
  \A k \in 1..Len(calls) :
    LET rows == Exported(k)
        values == calls[k].r.values
    IN calls[k].kind = "shp" =>
         /\ values.ran => /\ Range(values.missing_values) = MissingIn(rows)
                          /\ values.no_export = (MissingIn(rows) # {})
         /\ MissingIn(rows) # {} => Artifact(k) \notin outputs

\* C7 witness: a shapefile export refused only because a plain field is blank
C7_Witness ==
  \E k \in 1..Len(calls) :
    /\ calls[k].kind = "shp"
    /\ calls[k].r.values.ran
    /\ calls[k].r.values.missing_values = <<"Park">>
    /\ \E i \in 1..Len(Exported(k)) : Exported(k)[i]["Park"] = Blank
    /\ ~calls[k].r.pv.no_export
    /\ Artifact(k) \notin outputs
    /\ pc # "gee"

Refused(k) == Ended(k) /\ calls[k].r.no_export

\* C8 (as claimed): every selected feature class is processed, and the run
\* ends with the final error iff validation refused a feature class, in the
\* CSV path or in the shapefile path.
C8_FailureReported ==
  (pc = "done" /\ status # "TypeError") =>
    /\ \A n \in 1..Len(patches_fcs) :
         /\ export_csv => \E k \in 1..Len(calls) : calls[k].fc = n /\ calls[k].kind = "csv"
         /\ export_gee => \E k \in 1..Len(calls) : calls[k].fc = n /\ calls[k].kind = "shp"
    /\ (status = "ExecuteError") = (\E k \in 1..Len(calls) : Refused(k))

\* the feature class with its absent fields present and filled with good values
Completed(patches_fc) ==
  [fields |-> Fields,
   rows |-> [i \in 1..Len(patches_fc.rows) |->
              [f \in Fields |-> IF f \in patches_fc.fields THEN patches_fc.rows[i][f]
                                ELSE DefaultRow[f]]]]

WrittenFor(kind, patches_fc) ==
  IF kind = "csv" THEN export_patches_csv(patches_fc).written
  ELSE export_patches_shp(patches_fc).written

\* C9 (as claimed): a field that the feature class lacks is never an error:
\* the extracted table has the requested columns in the requested order, the
\* absent ones null in every row, a warning names them, and the export is
\* made whenever it would be made with the field present.
C9_AbsentFieldNoError ==
  \A k \in 1..Len(calls) :
    LET fc == patches_fcs[calls[k].fc]
        requested == IF calls[k].kind = "csv" THEN patches_fields ELSE exp_fields
        absent == Range(requested) \ fc.fields
        pv == calls[k].r.pv
    IN /\ pv.extracted.columns = requested
       /\ \A i \in 1..Len(pv.extracted.data) :
            /\ DOMAIN pv.extracted.data[i] = Range(requested)
            /\ \A f \in Range(requested) :
                 pv.extracted.data[i][f] = IF f \in absent THEN NA ELSE fc.rows[i][f]
       /\ Range(pv.warning) = absent
       /\ absent # {} =>
            /\ Ended(k)
            /\ WrittenFor(calls[k].kind, Completed(fc)) => Artifact(k) \in outputs

\* C10: clean_data makes null every 0 of Confidence and DistYear and every
\* single space of EventType, ChangeType, AltType, ChangeDesc and DistName, and
\* check_confidence counts no row without an event: a table whose rows all
\* have a null or blank EventType passes it, whatever their Confidence.
C10_CleaningSentinels ==
  \A k \in 1..Len(calls) :
    LET src == Source(k)
        out == Exported(k)
        conf == calls[k].r.pv.confidence
    IN calls[k].kind = "csv" =>
         /\ Len(out) = Len(src)
         /\ \A i \in 1..Len(src) :
              /\ \A f \in {"Confidence", "DistYear"} :
                   /\ src[i][f] = "0" => out[i][f] = NA
                   /\ src[i][f] # "0" => out[i][f] = src[i][f]
              /\ \A f \in {"EventType", "ChangeType", "AltType", "ChangeDesc", "DistName"} :
                   /\ src[i][f] = Blank => out[i][f] = NA
                   /\ out[i][f] # Blank
                   /\ (src[i][f] = None \/ src[i][f] = NA) => out[i][f] = src[i][f]
         /\ (conf.ran /\ \A i \in 1..Len(src) : ~HasEvent(src[i]))
            => (~conf.no_export /\ conf.invalid = 0)

\* C10 witness: a CSV export whose only row has Confidence 0 and EventType " "
C10_Witness ==
  \E k \in 1..Len(calls) :
    /\ calls[k].kind = "csv"
    /\ calls[k].r.pv.confidence.ran
    /\ Len(Source(k)) = 1
    /\ Source(k)[1]["Confidence"] = "0" /\ Source(k)[1]["EventType"] = Blank
    /\ Exported(k)[1]["Confidence"] = NA /\ Exported(k)[1]["EventType"] = NA
    /\ ~calls[k].r.pv.confidence.no_export
    /\ pc # "csv"

(***************************************************************************)
(* Properties of AddAttributesToPatches.py.                                *)
(***************************************************************************)
\* the cumulative feature classes of the output geodatabase, renamed or not
Cumulative == {run.run_gdb[name] : name \in DOMAIN run.run_gdb}

\* a run of the tool has ended, with or without error
RunEnded == run.run_pc = "done"

\* C11: after any run of the tool, in any mode, the cumulative feature class has
\* at most one patch for a year (yod) and a zone (annualID), and its patches are
\* in the order of their years: each year was appended after the years before it.
C11_OneRecordPerYearAndZone ==
  RunEnded =>
    \A db \in Cumulative :
      \A a, b \in DOMAIN db.rows :
        a < b => \/ db.rows[a].yod < db.rows[b].yod
                 \/ /\ db.rows[a].yod = db.rows[b].yod
                    /\ db.rows[a].annualID # db.rows[b].annualID

\* the places inside the pass of a year at which the run can stop
InsidePass == {"attributes", "events", "overlap", "append"}

\* the state in which a run of the whole folder, started on empty geodatabases and never
\* interrupted, ends
full_run(s) == run_to_end(launch(fresh(s.shps, s.park, s.events_mask, s.overwriteOutput), FALSE, 0))

\* a run that was interrupted inside the pass of a year was started again with the
\* resume flag, and without a year
Resumed ==
  /\ run.relaunched /\ run.resume_prev /\ run.shp_yr = 0
  /\ run.interrupted_at \in InsidePass

\* C12: wherever inside the pass of a year the run was interrupted, the run that
\* resumes it with the resume flag ends without error and leaves the cumulative
\* feature class that the uninterrupted run of the same folder leaves: the same
\* patches with the same attribute fields and values.
C12_ResumeEqualsFullRun ==
  (Resumed /\ RunEnded) =>
     /\ run.run_status = "ok"
     /\ run.run_gdb = full_run(run).run_gdb

\* the year whose shapefile a launch with the resume flag looks for
resume_yr == max_yr(run.run_gdb[changeDB_fc]) + 1

\* the tool is about to start in one of the two resume modes and what it resumes from is
\* missing: the cumulative feature class, or the shapefile of the year to resume with
ResumeImpossible ==
  /\ Running("start")
  /\ run.resume_prev \/ run.shp_yr # 0
  /\ \/ ~Exists(run.run_gdb, changeDB_fc)
     \/ run.resume_prev /\ shp_index(run.shps, resume_yr) = 0
     \/ run.shp_yr # 0 /\ shp_index(run.shps, run.shp_yr) = 0

\* C13: when the tool is started with the resume flag or with a year to resume with and the
\* cumulative feature class does not exist, or the shapefile of the year to resume with is
\* not in the folder, the script ends with arcpy.ExecuteError in its first step: no pass of
\* the loop has run, and the output geodatabase and the default geodatabase are as they were.
C13_ResumeGuardAbortsBeforeAnyChange ==
  [][ResumeImpossible =>
       /\ run'.run_status = "ExecuteError"
       /\ run'.run_pc = "done"
       /\ run'.run_gdb = run.run_gdb
       /\ run'.default_gdb = run.default_gdb
       /\ run'.overlap_log = run.overlap_log]_vars

\* a relaunch that named a year without shapefile has ended in the error, with the feature
\* classes of the interrupted run still in the default geodatabase
C13_Witness ==
  /\ RunEnded /\ run.run_status = "ExecuteError" /\ run.relaunched
  /\ run.shp_yr # 0 /\ shp_index(run.shps, run.shp_yr) = 0
  /\ Exists(run.run_gdb, changeDB_fc)
  /\ run.default_gdb # EmptyGdb

\* the records of a feature class: the year and the annualID of its patches
Records(fc) == {[yod |-> fc.rows[k].yod, annualID |-> fc.rows[k].annualID] : k \in DOMAIN fc.rows}

\* the run was started with a year to resume with, and the overlap test of that year, the
\* first of the loop, has just been made; the cumulative feature class is as it was at the start
ExplicitOverlapDone ==
  /\ Running("append")
  /\ run.shp_yr # 0 /\ run.i = run.yr_index /\ run.yr_index > 1
  /\ run.prev_fc # NoFc
  /\ run.overlap_log # <<>>

\* the feature class that add_overlap_prev was given as prev_fc in the test just made
Baseline == run.overlap_log[Len(run.overlap_log)].prev

\* the year of the shapefile before that of the year to resume with
PriorYear == run.shps[run.yr_index - 1].yr

\* C14: in a run started with year Y to resume with, the feature class of the previous year
\* in the overlap test of Y holds exactly the records of the cumulative feature class whose
\* year is the year before Y in the folder, whatever Y is.
C14_ExplicitBaselineIsPriorYear ==
  ExplicitOverlapDone =>
    Baseline.rows # <<>> /\ Records(Baseline) = Records(select_year(run.run_gdb[changeDB_fc], PriorYear))

\* add_coords has been applied to a yearly dataset that has patches
CoordsDone == coords.done /\ coords.fc # <<>>

\* C15: after add_coords on a yearly dataset, whatever patches have no central point and in
\* whatever table order the annualIDs come, CoordType is "Centroid" for exactly the patches
\* without central point and "Central point" for all others, and add_coords has not raised.
C15_CentroidExactlyForFailingPatches ==
  CoordsDone =>
    /\ coords.result.aborted = "no"
    /\ \A k \in DOMAIN coords.fc :
         coords.result.CoordType[k] = IF coords.fc[k].inside_fails THEN "Centroid" ELSE "Central point"

\* the annualIDs of the patches that add_albers gave a centroid
FellBack == {coords.fc[k].annualID : k \in {j \in DOMAIN coords.fc : coords.result.X_Coord_m[j] = "centroid"}}

\* C16: whenever add_albers gave a centroid to at least one patch of a yearly dataset, it has
\* given a warning that lists the annualIDs of all the patches that got a centroid, whether
\* or not the patch with the largest annualID is one of them.
C16_WarningListsEveryFallback ==
  (CoordsDone /\ FellBack # {}) =>
    \E w \in DOMAIN coords.result.warnings : Range(coords.result.warnings[w]) = FellBack

\* add_attr_patches has been applied to a feature class and has not raised
Enriched == attr.done /\ attr.result.aborted = "no"

\* the flag that a membership field holds for a patch that is, or is not, selected
Flag(selected) == IF selected THEN "1" ELSE "0"

\* C17: after add_attr_patches every patch has InPark and InBuffer, and for a park that has
\* protected areas and an elevation mask also Protected and InMask, set to 1 when the patch
\* (its central point) was selected against the layer and to 0 when it was not; none is null.
C17_MembershipFlagsNeverNull ==
  Enriched =>
    \A k \in DOMAIN attr.result.fc.rows :
      /\ attr.result.fc.rows[k].v["InPark"] = Flag(attr.result.fc.rows[k].in_park)
      /\ attr.result.fc.rows[k].v["InBuffer"] = Flag(attr.result.fc.rows[k].in_buffer)
      /\ attr.park # "LEWI" =>
           /\ attr.result.fc.rows[k].v["Protected"] = Flag(attr.result.fc.rows[k].in_protected)
           /\ attr.result.fc.rows[k].v["InMask"] = Flag(attr.result.fc.rows[k].within_mask)

\* a feature class of a park with all layers that came with the flags of an earlier run, all
\* 1, has been enriched: it has a patch outside the park and the protected areas and a patch
\* inside the elevation mask
C17_Witness ==
  /\ Enriched /\ attr.park # "LEWI"
  /\ "InPark" \in attr.patches_fc.fields
  /\ \E k \in DOMAIN attr.result.fc.rows :
       /\ ~attr.result.fc.rows[k].in_park /\ ~attr.result.fc.rows[k].in_protected
       /\ attr.patches_fc.rows[k].v["InPark"] = "1"
       /\ attr.result.fc.rows[k].v["InPark"] = "0"
       /\ attr.result.fc.rows[k].v["Protected"] = "0"
  /\ \E k \in DOMAIN attr.result.fc.rows : attr.result.fc.rows[k].v["InMask"] = "1"

\* the fields that add_attr_patches leaves on the same feature class for a park with all
\* reference layers
fields_with_all_layers ==
  add_attr_patches(attr.patches_fc, "MORA", attr.clip_patches_sa, attr.mmu).fc.fields

\* C18: for park LEWI, which has no protected areas, no east-west split and no elevation
\* mask, add_attr_patches still adds the fields Protected, EastWest and InMask and leaves
\* them null for every patch, so that the feature class has the same fields as that of a
\* park with all layers.
C18_AbsentLayerFieldsAddedNull ==
  (Enriched /\ attr.park = "LEWI") =>
    /\ {"Protected", "EastWest", "InMask"} \subseteq attr.result.fc.fields
    /\ \A k \in DOMAIN attr.result.fc.rows :
         \A f \in {"Protected", "EastWest", "InMask"} : attr.result.fc.rows[k].v[f] = None
    /\ attr.result.fc.fields = fields_with_all_layers

\* a run of the whole folder, started once and not interrupted, has ended without error
FirstRunEnded == RunEnded /\ run.run_status = "ok" /\ ~run.relaunched /\ run.interrupted_at = "no"

\* C19: in the cumulative feature class OverlapPrv is 0, not null, for every patch of the
\* first year processed, and 0 or 1 for every patch of a later year.
C19_OverlapPrvIsZeroOrOne ==
  FirstRunEnded =>
    \A db \in Cumulative :
      \A k \in DOMAIN db.rows :
        /\ db.rows[k].yod = run.shps[1].yr => db.rows[k].v["OverlapPrv"] = "0"
        /\ db.rows[k].v["OverlapPrv"] \in {"0", "1"}

\* the patch at row k of fc is in the exclusion set of add_overlap_prev
Excluded(fc, k) ==
  IF run.events_mask THEN fc.rows[k].v["EventType"] # None
  ELSE run.park # "LEWI" /\ fc.rows[k].v["InMask"] = "1"

\* the pass of add_overlap_prev logged in e set OverlapPrv of row k of the current year
FlaggedBy(e, k) == e.flagged.rows[k].v["OverlapPrv"] = "1" /\ e.base.rows[k].v["OverlapPrv"] # "1"

\* C20: in every pass of add_overlap_prev a patch of the current year that is excluded
\* (EventType not null when the events are labelled; InMask = 1 when they are not and the
\* park is not LEWI) is not flagged OverlapPrv = 1, a patch that is flagged overlaps a patch
\* of the previous year that is not excluded, and for LEWI without labelling every patch
\* that overlaps a patch of the previous year is flagged.
C20_ExcludedPatchesDoNotFlag ==
  run.run_status # "idle" =>
    \A n \in DOMAIN run.overlap_log :
      \A k \in DOMAIN run.overlap_log[n].base.rows :
        /\ Excluded(run.overlap_log[n].base, k) => ~FlaggedBy(run.overlap_log[n], k)
        /\ FlaggedBy(run.overlap_log[n], k) =>
             \E j \in DOMAIN run.overlap_log[n].prev.rows :
               /\ ~Excluded(run.overlap_log[n].prev, j)
               /\ overlaps(run.overlap_log[n].base.rows[k], run.overlap_log[n].prev.rows[j])
        /\ (run.park = "LEWI" /\ ~run.events_mask) =>
             \A j \in DOMAIN run.overlap_log[n].prev.rows :
               overlaps(run.overlap_log[n].base.rows[k], run.overlap_log[n].prev.rows[j])
                 => run.overlap_log[n].flagged.rows[k].v["OverlapPrv"] = "1"

\* one run has made two overlap tests: in one a labelled patch of the current year lies on a
\* patch of the previous year that is not excluded and is not flagged, in the other the only
\* patch of the previous year under the current one is excluded and the current one is not flagged
C20_Witness ==
  /\ run.run_status # "idle" /\ run.events_mask
  /\ \E n \in DOMAIN run.overlap_log :
       \E k \in DOMAIN run.overlap_log[n].base.rows, j \in DOMAIN run.overlap_log[n].prev.rows :
         /\ Excluded(run.overlap_log[n].base, k) /\ ~Excluded(run.overlap_log[n].prev, j)
         /\ overlaps(run.overlap_log[n].base.rows[k], run.overlap_log[n].prev.rows[j])
         /\ run.overlap_log[n].flagged.rows[k].v["OverlapPrv"] = None
  /\ \E n \in DOMAIN run.overlap_log :
       \E k \in DOMAIN run.overlap_log[n].base.rows, j \in DOMAIN run.overlap_log[n].prev.rows :
         /\ ~Excluded(run.overlap_log[n].base, k) /\ Excluded(run.overlap_log[n].prev, j)
         /\ overlaps(run.overlap_log[n].base.rows[k], run.overlap_log[n].prev.rows[j])
         /\ run.overlap_log[n].flagged.rows[k].v["OverlapPrv"] = None

\* the feature class of the year, right after the step that labels the events
Labelled == Running("overlap") /\ run.events_mask /\ Exists(run.default_gdb, run.patches_fc)
YearFc == run.default_gdb[run.patches_fc]

\* the values of the Annual Variability label
MaskLabel(values) ==
  /\ values["EventType"] = "Mask" /\ values["ChangeType"] = "Annual Variability"
  /\ values["Confidence"] = "2" /\ values["LabeledBy"] = "Geoprocessing"
  /\ values["PriorRun"] = "0" /\ values["PostDist"] = "0"
  /\ values["EventDate"] = today

\* C21: with the event labelling ticked, after the labelling step of a year every patch that
\* lies completely within the elevation mask (park other than LEWI) or completely within
\* the water mask has EventType "Mask", ChangeType "Annual Variability", Confidence 2,
\* LabeledBy "Geoprocessing", PriorRun 0, PostDist 0 and the date of the run as EventDate.
C21_MaskPatchesLabelled ==
  Labelled =>
    \A k \in DOMAIN YearFc.rows :
      ((run.park # "LEWI" /\ YearFc.rows[k].within_mask) \/ YearFc.rows[k].in_water)
        => MaskLabel(YearFc.rows[k].v)

\* a year of a park with an elevation mask has been labelled: its patch lies within the
\* elevation mask and outside the water mask, and carries the label
C21_Witness ==
  /\ Labelled /\ run.park # "LEWI"
  /\ \E k \in DOMAIN YearFc.rows :
       /\ YearFc.rows[k].within_mask /\ ~YearFc.rows[k].in_water
       /\ MaskLabel(YearFc.rows[k].v)

(***************************************************************************)
(* C23: the name of every patch of the finalized cumulative dataset.       *)
(***************************************************************************)
\* the cumulative datasets that a run has finalized (renamed, line 236)
Finalized == {name \in DOMAIN run.run_gdb : name # changeDB_fc}

\* y is the smallest and z the largest yod of the feature class
IsYearRange(fc, y, z) ==
  /\ \A k \in DOMAIN fc.rows : y <= fc.rows[k].yod /\ fc.rows[k].yod <= z
  /\ \E k \in DOMAIN fc.rows : fc.rows[k].yod = y
  /\ \E k \in DOMAIN fc.rows : fc.rows[k].yod = z

\* park_mmu_index_startYear_endYear_yod_annualID
ExpectedPatchName(patch, y, z) ==
  run.park \o "_" \o ToString(run.mmu) \o "_" \o patch.index \o "_" \o ToString(y) \o "_"
    \o ToString(z) \o "_" \o ToString(patch.yod) \o "_" \o ToString(patch.annualID)

\* C23: in the finalized cumulative dataset the PatchName of every patch is
\* park_mmu_index_startYear_endYear_yod_annualID, with the smallest and the largest yod
\* of the whole dataset as startYear and endYear; as long as the cumulative dataset is
\* not finalized (years are still being merged) no patch of it has a PatchName
C23_PatchNameAfterAllYearsMerged ==
  /\ \A name \in Finalized : \A y, z \in Years :
       IsYearRange(run.run_gdb[name], y, z) =>
         \A k \in DOMAIN run.run_gdb[name].rows :
           run.run_gdb[name].rows[k].v["PatchName"] = ExpectedPatchName(run.run_gdb[name].rows[k], y, z)
  /\ \A name \in Finalized : \E y, z \in Years : IsYearRange(run.run_gdb[name], y, z)
  /\ Exists(run.run_gdb, changeDB_fc) =>
       \A k \in DOMAIN run.run_gdb[changeDB_fc].rows :
         run.run_gdb[changeDB_fc].rows[k].v["PatchName"] = None

\* a run has finalized a cumulative dataset of more than one year, in which a patch of
\* the last year carries the first year in its name
C23_Witness ==
  /\ RunEnded /\ run.run_status = "ok" /\ run.park = "MORA"
  /\ \E name \in Finalized : \E k \in DOMAIN run.run_gdb[name].rows :
       /\ run.run_gdb[name].rows[k].yod = FirstYear + 1
       /\ run.run_gdb[name].rows[k].annualID = 1
       /\ run.run_gdb[name].rows[k].v["PatchName"] =
            "MORA_5_7_" \o ToString(FirstYear) \o "_" \o ToString(FirstYear + NumYears - 1)
              \o "_" \o ToString(FirstYear + 1) \o "_1"

(***************************************************************************)
(* update_area_perim as a state machine: the function is applied twice in  *)
(* a row to a feature class of one patch.                                  *)
(***************************************************************************)
\* stored values of area and perim (in tenths): whole and not whole
StoredValues == {90000, 90004, 90010, 90020}
\* values of Shape_Area and Shape_Length (in tenths): whole, below, at and above the
\* half, with an even and with an odd whole part below
GeometryValues == {90000, 90004, 90005, 90006, 90010, 90014, 90015, 90016, 90020}

SyncFcs ==
  {[fields |-> {"area", "perim"},
    rows |-> <<[area |-> a, perim |-> 4200, Shape_Area |-> g, Shape_Length |-> l]>>] :
     a \in StoredValues, g \in GeometryValues, l \in {4200, 4215, 4225}}
  \cup {[fields |-> {"area", "perim"},
         rows |-> <<[area |-> 90000, perim |-> a, Shape_Area |-> 90000, Shape_Length |-> g]>>] :
          a \in StoredValues, g \in GeometryValues}

InitSync ==
  /\ sync \in {[patches_fc |-> f, once |-> f, result |-> f, times |-> 0] : f \in SyncFcs}
  /\ coords = CoordsIdle
  /\ attr = AttrIdle
  /\ run = RunIdle
  /\ join = JoinIdle
  /\ save = SaveIdle
  /\ ExportIdle

\* update_area_perim is applied to the feature class as the last call left it
UpdateAreaPerim ==
  /\ sync.times < 2
  /\ sync' = [sync EXCEPT !.times = @ + 1,
                          !.result = update_area_perim(@),
                          !.once = IF sync.times = 0 THEN update_area_perim(sync.result) ELSE @]
  /\ UNCHANGED <<exportVars, coords, attr, run, join, save>>

NextSync == UpdateAreaPerim

SpecSync == InitSync /\ [][NextSync]_vars

(***************************************************************************)
(* C25: update_area_perim is idempotent.                                   *)
(***************************************************************************)
\* stored is what update_area_perim must leave for the stored value orig and the
\* geometry value new: new when the two were equal, and otherwise a whole number at
\* most one half away from new
Synchronized(stored, orig, new) ==
  IF orig = new THEN stored = new
  ELSE stored % 10 = 0 /\ stored - new <= 5 /\ new - stored <= 5

\* C25: applying update_area_perim twice in a row leaves the stored area and perim that
\* applying it once leaves; after it the stored value is the geometry value when the two
\* were equal, and otherwise the geometry value rounded to the nearest whole number
C25_UpdateAreaPerimIdempotent ==
  /\ sync.times = 2 => sync.result = sync.once
  /\ sync.times \in {1, 2} /\ sync # SyncIdle =>
       \A k \in DOMAIN sync.result.rows :
         /\ Synchronized(sync.result.rows[k].area, sync.patches_fc.rows[k].area,
                         sync.patches_fc.rows[k].Shape_Area)
         /\ Synchronized(sync.result.rows[k].perim, sync.patches_fc.rows[k].perim,
                         sync.patches_fc.rows[k].Shape_Length)

\* update_area_perim was applied twice to a patch whose area differs from that of its
\* geometry, which is not a whole number
C25_Witness ==
  /\ sync # SyncIdle /\ sync.times = 2
  /\ sync.patches_fc.rows[1].area # sync.patches_fc.rows[1].Shape_Area
  /\ sync.patches_fc.rows[1].Shape_Area % 10 = 6
  /\ sync.result.rows[1].area = sync.patches_fc.rows[1].Shape_Area + 4

(***************************************************************************)
(* C24: paratio is computed from synchronized area and perim.              *)
(***************************************************************************)
\* the tool has added paratio to the feature class
ParatioAdded == attr.done /\ attr.paratio_done /\ attr.result.aborted = "no" /\ attr # AttrIdle

\* the stored value is that of the geometry, or that of the geometry rounded to the
\* nearest whole number
InSync(stored, geometry) ==
  stored = geometry \/ (stored % 10 = 0 /\ stored - geometry <= 5 /\ geometry - stored <= 5)

\* C24: in every tool path that computes paratio (the yearly loop with and without the
\* clip to the study area, the select-patches tool) area and perim are synchronized
\* with the area and the length of the geometry when add_paratio runs, and the stored
\* paratio is computed from these synchronized values
C24_ParatioFromSynchronizedAreaPerim ==
  ParatioAdded =>
    \A k \in DOMAIN attr.result.fc.rows :
      /\ InSync(attr.result.fc.rows[k].area, attr.result.fc.rows[k].Shape_Area)
      /\ InSync(attr.result.fc.rows[k].perim, attr.result.fc.rows[k].Shape_Length)
      /\ attr.result.fc.rows[k].v["paratio"] =
           paratio(attr.result.fc.rows[k].area, attr.result.fc.rows[k].perim)

\* the same for the two paths that call update_area_perim
C24_InClipAndSelectPaths ==
  ParatioAdded /\ (attr.clip_patches_sa \/ attr.tool = "AddAttrToSelectPatches") =>
    \A k \in DOMAIN attr.result.fc.rows :
      /\ InSync(attr.result.fc.rows[k].area, attr.result.fc.rows[k].Shape_Area)
      /\ InSync(attr.result.fc.rows[k].perim, attr.result.fc.rows[k].Shape_Length)
      /\ attr.result.fc.rows[k].v["paratio"] =
           paratio(attr.result.fc.rows[k].area, attr.result.fc.rows[k].perim)

(***************************************************************************)
(* C27: add_albers terminates, and how deep its recursion goes.            *)
(***************************************************************************)
\* the patches of the yearly dataset whose central point cannot be computed
FailingPatches == {i \in DOMAIN coords.fc : coords.fc[i].inside_fails}

\* C27: add_albers terminates for every non-empty yearly dataset and every set of
\* failing patches, a failing patch with annualID 0 and a failing last patch included
\* (add_coords always has a result to give), and the depth of its recursion is at most
\* the number of failing patches
C27_AddAlbersTerminatesWithinFailingDepth ==
  /\ ~coords.done => ENABLED AddCoords
  /\ coords.done /\ coords.fc # <<>> => coords.result.max_depth <= Cardinality(FailingPatches)

\* the same for the yearly datasets whose annualIDs are positive and grow with the
\* table order
C27_WithAscendingPositiveAnnualIDs ==
  /\ coords.done /\ coords.fc # <<>>
  /\ \A i \in DOMAIN coords.fc : coords.fc[i].annualID # 0
  /\ \A i, j \in DOMAIN coords.fc : i < j => coords.fc[i].annualID < coords.fc[j].annualID
  => coords.result.max_depth <= Cardinality(FailingPatches)

(***************************************************************************)
(* C29: the datasets of a resumed run when it enters the yearly loop.      *)
(***************************************************************************)
\* the run resumes an interrupted one and is about to enter the yearly loop
EntersLoopResumed == Running("convert") /\ run.resume_prev /\ run.i = run.yr_index

\* C29: in resume-from-interruption the dataset of the current year and that of the
\* previous year are both defined whenever the yearly loop is entered: a run that does
\* not find exactly two yearly datasets in the default geodatabase, or whose first one
\* is not of the last year of the cumulative dataset, has aborted before the loop
C29_ResumedLoopHasBothDatasets ==
  EntersLoopResumed => run.patches_fc # NoFc /\ run.base_fc # NoFc

\* the same for the case in which the default geodatabase does not hold exactly two
\* yearly datasets
C29_NotTwoDatasetsAborts ==
  EntersLoopResumed => Cardinality(DOMAIN run.default_gdb \ {change(run.shp_yr)}) = 2
                       \/ Cardinality(DOMAIN run.default_gdb) = 2

(***************************************************************************)
(* C30: the yearly datasets in the default geodatabase during a run.       *)
(***************************************************************************)
\* a run that was started once, without resuming, and that no error has ended
NormalRun ==
  /\ run.run_status \in {"running", "ok"}
  /\ ~run.relaunched /\ run.interrupted_at = "no"

\* the year of the pass the run is in; after the last pass, the year after the last
CurrentYear ==
  IF run.i <= Len(run.shps) THEN run.shps[run.i].yr ELSE run.shps[Len(run.shps)].yr + 1

\* C30: at every point of a normal run the default geodatabase holds at most two yearly
\* datasets, that of the current year and that of the year before; the dataset of the
\* year before is still there until the overlap test has used it and is gone when the
\* current year is merged into the cumulative dataset; after the last year is merged
\* and the run is finalized no yearly dataset is left
C30_AtMostTwoYearlyDatasets ==
  NormalRun =>
    /\ Cardinality(DOMAIN run.default_gdb) <= 2
    /\ DOMAIN run.default_gdb \subseteq {change(CurrentYear), change(CurrentYear - 1)}
    /\ run.run_pc \in {"attributes", "events", "overlap"} /\ run.i > 1 =>
         Exists(run.default_gdb, change(CurrentYear - 1))
    /\ run.run_pc = "append" =>
         /\ ~Exists(run.default_gdb, change(CurrentYear - 1))
         /\ Len(run.overlap_log) = run.i - 1 \/ run.overlap_log[Len(run.overlap_log)].yr = CurrentYear
         /\ Exists(run.run_gdb, changeDB_fc) => CurrentYear \notin yods(run.run_gdb[changeDB_fc])
    /\ run.run_pc = "done" => run.default_gdb = EmptyGdb

\* a normal run is about to merge its second year: the overlap test has used the
\* dataset of the first year, which is deleted
C30_Witness ==
  /\ NormalRun /\ run.run_pc = "append" /\ run.i = 2
  /\ run.overlap_log # <<>> /\ run.overlap_log[Len(run.overlap_log)].yr = CurrentYear
  /\ DOMAIN run.default_gdb = {change(CurrentYear)}

(***************************************************************************)
(* toolbox/JoinLabelsToPatches.py and eventsFunctions.update_event_fields. *)
(*                                                                         *)
(* The dataset and the lookup table are tables of rows with a PatchName    *)
(* and the values (v) of the label fields; the dataset also has the values *)
(* of the fields that JoinField adds as <name>_1.  A field that the table  *)
(* does not have, or that is null, has the value None.  patches_fc is the  *)
(* path of a feature class: CalculateField works on all its rows.          *)
(***************************************************************************)
\* JoinLabelsToPatches.py, line 53: the fields that are joined
label_fields == <<"EventType", "ChangeType", "Confidence", "AltType", "ChangeDesc", "DistYear", "DistName">>

\* update_event_fields, lines 116-124: the fields to update (patches_fields)
update_patches_fields ==
  <<"EventType", "ChangeType", "Confidence", "AltType", "ChangeType", "DistYear", "DistName">>

\* update_event_fields, lines 126-134: the fields that contain the values
update_value_fields ==
  <<"EventType_1", "ChangeType_1", "Confidence_1", "AltType_1", "ChangeType_1", "DistYear_1", "DistName_1">>

\* the fields of the dataset that the label join reads or writes
LabelColumns == Range(label_fields) \cup {f \o "_1" : f \in Range(label_fields)}

\* JoinField, lines 48-57: the first row of the lookup table with the PatchName, 0 when
\* there is none
matching_row(events_tbl, PatchName) ==
  IF \E k \in DOMAIN events_tbl : events_tbl[k].PatchName = PatchName
  THEN CHOOSE k \in DOMAIN events_tbl :
         /\ events_tbl[k].PatchName = PatchName
         /\ \A j \in DOMAIN events_tbl : events_tbl[j].PatchName = PatchName => k <= j
  ELSE 0

\* the value that JoinField gives to the column c of a patch: that of the lookup table
\* for the patch that has a matching row, null for the patch that has none
joined_value(patch, c, events_tbl, joined) ==
  IF \E f \in Range(label_fields) : joined[f] = c
  THEN IF matching_row(events_tbl, patch.PatchName) = 0 THEN None
       ELSE events_tbl[matching_row(events_tbl, patch.PatchName)].v[
              CHOOSE f \in Range(label_fields) : joined[f] = c]
  ELSE patch.v[c]

\* JoinLabelsToPatches.py, lines 48-57: arcpy.management.JoinField on PatchName;
\* joined gives the name under which each field is added
join_labels_as(fc, events_tbl, joined) ==
  [fields |-> fc.fields \cup {joined[f] : f \in Range(label_fields)},
   rows |-> [i \in DOMAIN fc.rows |->
               [fc.rows[i] EXCEPT !.v = [c \in LabelColumns |->
                                           joined_value(fc.rows[i], c, events_tbl, joined)]]],
   aborted |-> "no"]

join_labels(fc, events_tbl) ==
  join_labels_as(fc, events_tbl, [f \in Range(label_fields) |-> joined_name(fc.fields, f)])

\* update_event_fields, lines 137-143: CalculateField from the field n on; the
\* expression !<field>! of a field that the dataset does not have is an error
RECURSIVE calculate_event_fields(_, _)
calculate_event_fields(fc, n) ==
  IF n > Len(update_patches_fields) THEN fc
  ELSE IF update_value_fields[n] \notin fc.fields THEN [fc EXCEPT !.aborted = "ExecuteError"]
  ELSE calculate_event_fields(
         [fc EXCEPT !.fields = @ \cup {update_patches_fields[n]},
                    !.rows = [i \in DOMAIN fc.rows |->
                                [fc.rows[i] EXCEPT !.v[update_patches_fields[n]] =
                                                     fc.rows[i].v[update_value_fields[n]]]]],
         n + 1)

\* update_event_fields, line 146: arcpy.management.DeleteField(patches_fc, value_fields)
delete_value_fields(fc) ==
  IF fc.aborted # "no" THEN fc
  ELSE [fc EXCEPT !.fields = @ \ Range(update_value_fields),
                  !.rows = [i \in DOMAIN fc.rows |->
                              [fc.rows[i] EXCEPT !.v = [c \in LabelColumns |->
                                 IF c \in Range(update_value_fields) THEN None ELSE @[c]]]]]

\* eventsFunctions.update_event_fields
update_event_fields(patches_fc) == delete_value_fields(calculate_event_fields(patches_fc, 1))

\* JoinLabelsToPatches.py, lines 41-61
join_update_labels(patches_fc, events_tbl) ==
  IF "EventType" \in patches_fc.fields
  THEN update_event_fields(join_labels(patches_fc, events_tbl))
  ELSE join_labels(patches_fc, events_tbl)

\* the labels of a patch of the dataset: none, those that add_annual_var gives to a
\* patch of a mask, those of an earlier labelling
PatchLabels ==
  {[c \in LabelColumns |-> None],
   [c \in LabelColumns |-> IF c = "EventType" THEN "Mask"
                           ELSE IF c = "ChangeType" THEN "Annual Variability"
                           ELSE IF c = "Confidence" THEN "2" ELSE None],
   [c \in LabelColumns |-> IF c \in Range(label_fields) THEN "old " \o c ELSE None]}

\* the labels of a row of the lookup table: a value in every field, or in every field
\* but AltType and DistName
TableLabels ==
  {[f \in Range(label_fields) |-> "new " \o f],
   [f \in Range(label_fields) |-> IF f \in {"AltType", "DistName"} THEN None ELSE "label " \o f]}

\* the datasets: one or two patches, with the event fields (their labels are then any
\* of PatchLabels), with EventType alone, or without event fields
JoinDatasets ==
  UNION {{[fields |-> {"PatchName"} \cup Range(label_fields),
           rows |-> [i \in 1..n |-> [PatchName |-> <<"p1", "p2">>[i], v |-> l[i]]]] :
            l \in [1..n -> PatchLabels]} : n \in 1..2}
  \cup {[fields |-> {"PatchName", "EventType"},
         rows |-> <<[PatchName |-> "p1", v |-> [c \in LabelColumns |-> None]]>>],
        [fields |-> {"PatchName"},
         rows |-> <<[PatchName |-> "p1", v |-> [c \in LabelColumns |-> None]]>>],
        [fields |-> {"PatchName"},
         rows |-> <<[PatchName |-> "p2", v |-> [c \in LabelColumns |-> None]],
                    [PatchName |-> "p1", v |-> [c \in LabelColumns |-> None]]>>]}

\* the lookup tables: up to two rows, for patches of the dataset and for others
LookupTables ==
  UNION {[1..n -> [PatchName : {"p1", "p3"}, v : TableLabels]] : n \in 0..2}

InitJoin ==
  /\ join \in {[patches_fc |-> d, events_tbl |-> t, done |-> FALSE,
                result |-> [fields |-> d.fields, rows |-> d.rows, aborted |-> "no"]] :
                 d \in JoinDatasets, t \in LookupTables}
  /\ coords = CoordsIdle
  /\ attr = AttrIdle
  /\ run = RunIdle
  /\ sync = SyncIdle
  /\ save = SaveIdle
  /\ ExportIdle

\* the tool joins the labels of the lookup table to the dataset
JoinLabels ==
  /\ ~join.done
  /\ join' = [join EXCEPT !.done = TRUE,
                          !.result = join_update_labels(join.patches_fc, join.events_tbl)]
  /\ UNCHANGED <<exportVars, coords, attr, run, sync, save>>

NextJoin == JoinLabels

SpecJoin == InitJoin /\ [][NextJoin]_vars

(***************************************************************************)
(* C22 and C28: the label join on a dataset that has the event fields.     *)
(***************************************************************************)
\* the label join has run on a dataset whose event fields exist
LabelsUpdated ==
  /\ join.done /\ join # JoinIdle
  /\ Range(label_fields) \subseteq join.patches_fc.fields

\* the patches of the dataset with and without a row in the lookup table
Matched == {i \in DOMAIN join.patches_fc.rows :
              \E k \in DOMAIN join.events_tbl : join.events_tbl[k].PatchName = join.patches_fc.rows[i].PatchName}
Unmatched == DOMAIN join.patches_fc.rows \ Matched

\* the row of the lookup table that is joined to the patch i
LookupRow(i) ==
  join.events_tbl[CHOOSE k \in DOMAIN join.events_tbl :
                    /\ join.events_tbl[k].PatchName = join.patches_fc.rows[i].PatchName
                    /\ \A j \in 1..(k - 1) : join.events_tbl[j].PatchName # join.patches_fc.rows[i].PatchName]

\* C22: after the label join on a dataset whose event fields already exist, each of
\* EventType, ChangeType, Confidence, AltType, ChangeDesc, DistYear and DistName of
\* every patch matched in the lookup table has the value of the lookup table, whatever
\* it had before, and no temporary joined field is left in the dataset
C22_MatchedPatchesTakeLookupValues ==
  LabelsUpdated =>
    /\ join.result.aborted = "no"
    /\ \A i \in Matched : \A f \in Range(label_fields) :
         join.result.rows[i].v[f] = LookupRow(i).v[f]
    /\ join.result.fields = join.patches_fc.fields

\* the same without ChangeDesc and its joined field
C22_ButChangeDesc ==
  LabelsUpdated =>
    /\ join.result.aborted = "no"
    /\ \A i \in Matched : \A f \in Range(label_fields) \ {"ChangeDesc"} :
         join.result.rows[i].v[f] = LookupRow(i).v[f]
    /\ join.result.fields \ {"ChangeDesc_1"} = join.patches_fc.fields

\* C28: the label join on a dataset whose event fields already exist leaves EventType,
\* ChangeType, Confidence, AltType, DistYear and DistName of every patch without
\* matching PatchName in the lookup table as they were; a "Mask" label is not erased
C28_UnmatchedPatchesKeepLabels ==
  LabelsUpdated =>
    \A i \in Unmatched : \A f \in Range(label_fields) \ {"ChangeDesc"} :
      join.result.rows[i].v[f] = join.patches_fc.rows[i].v[f]

(***************************************************************************)
(* toolbox/ExportPatches.py, lines 52-84: where the CSV is written.        *)
(*                                                                         *)
(* A path is the folder of the file (the output folder itself, its park    *)
(* folder or its folder Patches_CSV) and the number of suffixes "_1" that  *)
(* the file name <park>_patches_<years>.csv carries.                       *)
(***************************************************************************)
\* most suffixes "_1" of the files already in the output folders
MaxSuffixes == 2

csv_out_folder == "csv_out_folder"
park_code == "park_code"

\* lines 55-72: the folder to save in; Patches_CSV is made when it does not exist
csv_save_folder(folders) == IF park_code \in folders THEN park_code ELSE "Patches_CSV"

\* lines 81-83: a suffix is added to the file name until the path does not exist; the
\* path is then made with csv_out_folder
RECURSIVE free_out_fp(_, _)
free_out_fp(files, out_fp) ==
  IF out_fp \in files
  THEN free_out_fp(files, [folder |-> csv_out_folder, suffixes |-> out_fp.suffixes + 1])
  ELSE out_fp

\* lines 74-83: the path that is passed to export_patches_csv
csv_out_fp(folders, files) ==
  free_out_fp(files, [folder |-> csv_save_folder(folders), suffixes |-> 0])

\* the folders that the output folder may hold, and the files with the name of the CSV
\* in the folders that exist
OutFolders == SUBSET {park_code, "Patches_CSV"}
OutFiles(folders) ==
  SUBSET [folder : folders \cup {csv_out_folder}, suffixes : 0..MaxSuffixes]

InitSave ==
  /\ save \in {[folders |-> d, files |-> f, done |-> FALSE,
                out_fp |-> [folder |-> csv_out_folder, suffixes |-> 0]] :
                 d \in OutFolders, f \in UNION {OutFiles(x) : x \in OutFolders}}
  /\ save.files \in OutFiles(save.folders)
  /\ coords = CoordsIdle
  /\ attr = AttrIdle
  /\ run = RunIdle
  /\ sync = SyncIdle
  /\ join = JoinIdle
  /\ ExportIdle

\* the script makes the path of the CSV of the feature class
MakeCsvPath ==
  /\ ~save.done
  /\ save' = [save EXCEPT !.done = TRUE,
                          !.folders = @ \cup {csv_save_folder(save.folders)},
                          !.out_fp = csv_out_fp(save.folders, save.files)]
  /\ UNCHANGED <<exportVars, coords, attr, run, sync, join>>

NextSave == MakeCsvPath

SpecSave == InitSave /\ [][NextSave]_vars

(***************************************************************************)
(* C26: the CSV export does not collide with the files that exist.         *)
(***************************************************************************)
\* the script has made the path of the CSV
PathMade == save.done /\ save # SaveIdle

\* C26: for any files already present in the output folders, the path passed to
\* export_patches_csv does not name an existing file, and the file is placed in the save
\* folder (the park folder or Patches_CSV) that was chosen before the collision
C26_CsvPathFreeAndInSaveFolder ==
  PathMade =>
    /\ save.out_fp \notin save.files
    /\ save.out_fp.folder \in {park_code, "Patches_CSV"}
    /\ save.out_fp.folder = park_code <=> park_code \in save.folders

\* the part of C26 about overwriting: the path does not name an existing file
C26_CsvPathFree == PathMade => save.out_fp \notin save.files

====
